---- MODULE Spec2Model ----
(***************************************************************************)
(* The in-memory storage engine of jbvmio/modules.                         *)
(*                                                                         *)
(* InMemoryModule (storage/inmemory): one dispatcher goroutine (mainLoop)  *)
(* reads the inbound requestChannel and hands every request to one of      *)
(* numWorkers worker goroutines (requestWorker), each with its own         *)
(* buffered channel; the workers run the handlers (addIndex, addData,      *)
(* clearData, deleteEntry, fetchEntryList, fetchEntry) against the shared  *)
(* map of indexes.  Handlers are modelled one shared access per step, so   *)
(* that every interleaving of the workers is explored.                     *)
(*                                                                         *)
(* Strings are sequences of byte codes, so that the concatenation          *)
(* r.Index+r.DB that mainLoop hashes is a real concatenation.              *)
(***************************************************************************)
EXTENDS Integers, Sequences, FiniteSets, TLC

\* ------------------------------------------------------------------ bounds

\* Worker goroutines started by Start (the configured "workers").
NumWorkers == 2

\* Requests the producers submit in one run.
MaxRequests == 3

\* The calls the caller of the exported API makes.
MaxCalls == 2

\* Capacity of requestChannel and of every worker channel ("queue-depth").
QueueDepth == 1

\* ------------------------------------------------------- request constants

StorageSetIndex == 0

StorageSetData == 1

StorageSetDeleteEntry == 2

StorageFetchIndexes == 3

StorageFetchEntries == 4

StorageFetchEntry == 5

StorageClearData == 6

\* A RequestConstant outside the declared ones.
UnknownTypes == {7}

\* ------------------------------------------------------------------- names

a == <<97>>

b == <<98>>

x == <<120>>

y == <<121>>

k == <<107>>

l == <<108>>

Empty == <<>>

Workers == 0 .. (NumWorkers - 1)

\* The nil Object of a request that carries none.
NilObject == "nil"

\* The names the requests use.
IndexNames == {a, b}

DbNames == {x, y}

EntryNames == {k, l}

\* ----------------------------------------------------------------- requests

\* storage.Request: Reply is TRUE when the request carries a reply channel.
Request(t, reply, index, db, entry, obj) ==
    [RequestType |-> t, Reply |-> reply, Index |-> index, DB |-> db,
     Entry |-> entry, Object |-> obj]

\* The requests the producers choose from.
Menu ==
    {Request(StorageSetIndex, FALSE, a, Empty, Empty, NilObject),
     Request(StorageSetData, FALSE, a, x, k, "P1"),
     Request(StorageSetData, FALSE, a, x, l, "P2"),
     Request(StorageSetData, FALSE, a, y, k, "P2"),
     Request(StorageSetData, FALSE, b, x, k, "P1"),
     Request(StorageSetDeleteEntry, FALSE, a, x, k, NilObject),
     Request(StorageClearData, FALSE, a, x, k, NilObject),
     Request(StorageFetchIndexes, TRUE, Empty, Empty, Empty, NilObject),
     Request(StorageFetchEntries, TRUE, a, x, Empty, NilObject),
     Request(StorageFetchEntry, TRUE, a, x, k, NilObject),
     Request(StorageFetchEntry, TRUE, a, x, l, NilObject)}
    \cup {Request(t, r, a, x, k, NilObject) : t \in UnknownTypes, r \in BOOLEAN}

\* The configurations checked ("auto-index", "indexes"): the default one, with
\* indexes made on demand and none named; and auto-index off with index a
\* named, which Start creates.
Configurations ==
    {[autoIndex |-> TRUE, indexes |-> {}], [autoIndex |-> FALSE, indexes |-> {a}]}

\* ------------------------------------------------------------------- state

VARIABLES
    autoIndex,       \* imm.autoIndex
    indexes,         \* imm.indexes: index name -> *Index (an object id)
    indexDb,         \* Index.db of every Index object: database name -> *Database
    dbEntries,       \* Database.entries of every Database object: key -> Data
    idxLock,         \* Index.idxLock of every Index object: the set of holders
    dbLock,          \* Database.lock of every Database object: the set of holders
    reqs,            \* every request submitted so far; a request's id is its position
    requestChannel,  \* imm.requestChannel: ids waiting for mainLoop
    workers,         \* imm.workers: the channel of every worker
    main,            \* mainLoop: where it is, the request and the worker it sends to
    wk,              \* requestWorker: where each worker is, and its local variables
    reply,           \* the Reply channel of every request
    dispatched,      \* ids in the order mainLoop received them
    routed,          \* <<id, worker>> in the order mainLoop sent them
    started,         \* ids whose handler has started
    finished,        \* ids whose handling has ended
    logged,          \* <<id, message>>: what the handlers logged about a request
    crashed,         \* "no", or how the process died: "panic", "fatal"
    caller           \* a client of the request API: where it is, what its calls returned

vars == <<autoIndex, indexes, indexDb, dbEntries, idxLock, dbLock, reqs,
          requestChannel, workers, main, wk, reply, dispatched, routed,
          started, finished, logged, crashed, caller>>

storeVars == <<indexes, indexDb, dbEntries>>

lockVars == <<idxLock, dbLock>>

queueVars == <<reqs, requestChannel, workers, main, dispatched, routed>>

\* A map with no key.
EmptyMap == [n \in {} |-> 0]

\* The nil pointer.
Nil == 0

\* The Index object Start makes for a configured name.
ConfigIndexId(n) == 0 - n[1]

\* A worker that is between two requests.
IdleWorker == [pc |-> "idle", req |-> Nil, idx |-> Nil, db |-> Nil, data |-> NilObject]

\* A client that has called nothing yet.
NoCaller == [pc |-> "start", results |-> <<>>]

\* A reply channel: nil, open or closed; the values written, the closes made.
NewReply(q) ==
    [state |-> IF q.Reply THEN "open" ELSE "nil", values |-> <<>>, closes |-> 0]

\* Configure and Start: the store holds the configured indexes, every channel
\* is empty, the workers and mainLoop wait.
Init ==
    /\ \E cfg \in Configurations :
        /\ autoIndex = cfg.autoIndex
        /\ indexes = [n \in cfg.indexes |-> ConfigIndexId(n)]
        /\ indexDb = [i \in {ConfigIndexId(n) : n \in cfg.indexes} |-> EmptyMap]
        /\ idxLock = [i \in {ConfigIndexId(n) : n \in cfg.indexes} |-> {}]
    /\ dbEntries = EmptyMap
    /\ dbLock = EmptyMap
    /\ reqs = <<>>
    /\ requestChannel = <<>>
    /\ workers = [w \in Workers |-> <<>>]
    /\ main = [pc |-> "recv", req |-> Nil, target |-> 0]
    /\ wk = [w \in Workers |-> IdleWorker]
    /\ reply = <<>>
    /\ dispatched = <<>>
    /\ routed = <<>>
    /\ started = {}
    /\ finished = {}
    /\ logged = {}
    /\ crashed = "no"
    /\ caller = NoCaller

\* ------------------------------------------------------------- submission

\* A producer's send on requestChannel is accepted: the channel has room.
Submit(q) ==
    /\ crashed = "no"
    /\ Len(reqs) < MaxRequests
    /\ Len(requestChannel) < QueueDepth
    /\ reqs' = Append(reqs, q)
    /\ requestChannel' = Append(requestChannel, Len(reqs) + 1)
    /\ reply' = Append(reply, NewReply(q))
    /\ UNCHANGED <<caller, autoIndex, storeVars, lockVars, workers, main, wk,
                   dispatched, routed, started, finished, logged, crashed>>

\* ------------------------------------------------------------ reply channel

\* close(ch) panics on a nil channel and on a closed one.
ClosePanics(r) == reply[r].state # "open"

\* The reply channels after close(reqs[r].Reply).
AfterClose(r) ==
    IF reply[r].state = "nil" THEN reply
    ELSE [reply EXCEPT ![r] = [@ EXCEPT !.state = "closed", !.closes = @ + 1]]

\* The reply channels after `Reply <- v` followed by the deferred close.
AfterSend(r, v) ==
    [reply EXCEPT ![r] = [state |-> "closed", values |-> Append(@.values, v),
                          closes |-> @.closes + 1]]

\* ---------------------------------------------------------------- mainLoop

\* The request types mainLoop sends to any worker.
NamespaceWide == {StorageFetchIndexes, StorageFetchEntries, StorageSetIndex}

\* The request types mainLoop hashes to a consistent worker.
KeyScoped == {StorageSetDeleteEntry, StorageClearData, StorageSetData, StorageFetchEntry}

\* The hash: a stand-in for xxhash.ChecksumString64, a fixed function of the
\* bytes of the string (a polynomial hash kept to 16 bits).
RECURSIVE ChecksumString64(_)
ChecksumString64(s) ==
    IF s = <<>> THEN 7
    ELSE (ChecksumString64(SubSeq(s, 1, Len(s) - 1)) * 31 + s[Len(s)]) % 65536

\* A variant that hashes the entry key too.
ConsistKeyWithEntry(q) == q.Index \o q.DB \o q.Entry

\* The string mainLoop hashes: r.Index+r.DB.
ConsistKey(q) == q.Index \o q.DB

\* The worker a key-scoped request goes to.
ConsistentWorker(q) == ChecksumString64(ConsistKey(q)) % NumWorkers

\* mainLoop receives the head of requestChannel.
MainTake(r) ==
    /\ crashed = "no"
    /\ main.pc = "recv"
    /\ requestChannel # <<>>
    /\ r = Head(requestChannel)
    /\ requestChannel' = Tail(requestChannel)
    /\ dispatched' = Append(dispatched, r)

\* A variant that hashes the namespace-wide types to a worker, like the
\* key-scoped ones.
MainRouteAnyHashed ==
    \E r \in 1 .. Len(reqs) :
        /\ MainTake(r)
        /\ reqs[r].RequestType \in NamespaceWide
        /\ main' = [pc |-> "send", req |-> r, target |-> ConsistentWorker(reqs[r])]
        /\ UNCHANGED <<caller, autoIndex, storeVars, lockVars, reqs, workers, wk, reply,
                       routed, started, finished, logged, crashed>>

\* case FetchIndexes, FetchEntries, SetIndex: pick a random worker.
MainRouteAny ==
    \E r \in 1 .. Len(reqs), w \in Workers :
        /\ MainTake(r)
        /\ reqs[r].RequestType \in NamespaceWide
        /\ main' = [pc |-> "send", req |-> r, target |-> w]
        /\ UNCHANGED <<caller, autoIndex, storeVars, lockVars, reqs, workers, wk, reply,
                       routed, started, finished, logged, crashed>>

\* A variant that sends the key-scoped types to any worker, like the others.
MainRouteKeyScopedAny ==
    \E r \in 1 .. Len(reqs), w \in Workers :
        /\ MainTake(r)
        /\ reqs[r].RequestType \in KeyScoped
        /\ main' = [pc |-> "send", req |-> r, target |-> w]
        /\ UNCHANGED <<caller, autoIndex, storeVars, lockVars, reqs, workers, wk, reply,
                       routed, started, finished, logged, crashed>>

\* case SetDeleteEntry, ClearData, SetData, FetchEntry: hash to a worker.
MainRouteConsistent ==
    \E r \in 1 .. Len(reqs) :
        /\ MainTake(r)
        /\ reqs[r].RequestType \in KeyScoped
        /\ main' = [pc |-> "send", req |-> r, target |-> ConsistentWorker(reqs[r])]
        /\ UNCHANGED <<caller, autoIndex, storeVars, lockVars, reqs, workers, wk, reply,
                       routed, started, finished, logged, crashed>>

\* A variant of the default case that logs and leaves the reply channel open.
MainUnknownLeavesOpen ==
    \E r \in 1 .. Len(reqs) :
        /\ MainTake(r)
        /\ reqs[r].RequestType \notin NamespaceWide \cup KeyScoped
        /\ finished' = finished \cup {r}
        /\ logged' = logged \cup {<<r, "unknown storage request type">>}
        /\ UNCHANGED <<caller, autoIndex, storeVars, lockVars, reqs, workers, main, wk,
                       reply, routed, started, crashed>>

\* default: log, and close the reply channel when there is one.
MainUnknown ==
    \E r \in 1 .. Len(reqs) :
        /\ MainTake(r)
        /\ reqs[r].RequestType \notin NamespaceWide \cup KeyScoped
        /\ reply' = IF reqs[r].Reply THEN AfterClose(r) ELSE reply
        /\ crashed' = IF reqs[r].Reply /\ ClosePanics(r) THEN "panic" ELSE crashed
        /\ finished' = finished \cup {r}
        /\ logged' = logged \cup {<<r, "unknown storage request type">>}
        /\ UNCHANGED <<caller, autoIndex, storeVars, lockVars, reqs, workers, main, wk,
                       routed, started>>

\* A variant that hands the request to any worker whose channel has room.
MainSendElsewhere ==
    /\ crashed = "no"
    /\ main.pc = "send"
    /\ \E w \in Workers :
        /\ Len(workers[w]) < QueueDepth
        /\ workers' = [workers EXCEPT ![w] = Append(@, main.req)]
        /\ routed' = Append(routed, <<main.req, w>>)
    /\ main' = [pc |-> "recv", req |-> Nil, target |-> 0]
    /\ UNCHANGED <<caller, autoIndex, storeVars, lockVars, reqs, requestChannel, wk, reply,
                   dispatched, started, finished, logged, crashed>>

\* The send `module.workers[...] <- r` completes: the worker's channel has room.
MainSend ==
    /\ crashed = "no"
    /\ main.pc = "send"
    /\ Len(workers[main.target]) < QueueDepth
    /\ workers' = [workers EXCEPT ![main.target] = Append(@, main.req)]
    /\ routed' = Append(routed, <<main.req, main.target>>)
    /\ main' = [pc |-> "recv", req |-> Nil, target |-> 0]
    /\ UNCHANGED <<caller, autoIndex, storeVars, lockVars, reqs, requestChannel, wk, reply,
                   dispatched, started, finished, logged, crashed>>

\* ----------------------------------------------------------- requestWorker

\* The worker's dispatch table (requestTypeMap): request type -> handler.
requestTypeMap ==
    (StorageSetIndex :> "addIndex") @@ (StorageSetData :> "addData")
    @@ (StorageClearData :> "clearData") @@ (StorageSetDeleteEntry :> "deleteEntry")
    @@ (StorageFetchEntries :> "fetchEntryList") @@ (StorageFetchEntry :> "fetchEntry")

\* The worker state after a step of the handler.
Goto(w, pc) == [wk EXCEPT ![w].pc = pc]

GotoIdx(w, pc, i) == [wk EXCEPT ![w].pc = pc, ![w].idx = i]

GotoDb(w, pc, d) == [wk EXCEPT ![w].pc = pc, ![w].db = d]

GotoData(w, pc, v) == [wk EXCEPT ![w].pc = pc, ![w].data = v]

\* The handler returns: the worker is back at `for r := range requestChannel`.
Return(w) == [wk EXCEPT ![w] = IdleWorker]

\* Worker w is at label pc of a handler.
At(w, pc) == crashed = "no" /\ wk[w].pc = pc

\* The request worker w handles, and its fields.
Req(w) == reqs[wk[w].req]

\* sync.RWMutex: Lock() waits until nobody holds the mutex.
LockFree(lock) == lock = {}

Locked(lock, w) == lock \cup {<<w, "W">>}

Unlocked(lock, w) == lock \ {<<w, "W">>}

\* Database.RLock() calls db.lock.Lock(): it waits like Lock().
RLockFree(lock) == LockFree(lock)

\* The stored value: storage.Data{Object}, with the Object's cleared state.
Data(obj) == [Object |-> obj, cleared |-> FALSE]

\* Index.AddDB: i.db[db] = database.
AddDB(dbs, name, database) == (name :> database) @@ dbs

\* A map without one key.
Without(m, key) == [j \in DOMAIN m \ {key} |-> m[j]]

\* `for r := range requestChannel`: the type has a handler, which starts.
WorkerCall(w) ==
    /\ At(w, "idle")
    /\ workers[w] # <<>>
    /\ reqs[Head(workers[w])].RequestType \in DOMAIN requestTypeMap
    /\ workers' = [workers EXCEPT ![w] = Tail(@)]
    /\ wk' = [wk EXCEPT ![w].pc = requestTypeMap[reqs[Head(workers[w])].RequestType],
                        ![w].req = Head(workers[w])]
    /\ started' = started \cup {Head(workers[w])}
    /\ UNCHANGED <<caller, autoIndex, storeVars, lockVars, reqs, requestChannel, main, reply,
                   dispatched, routed, finished, logged, crashed>>

\* The type has no handler: the loop goes on to the next request.
WorkerSkip(w) ==
    /\ At(w, "idle")
    /\ workers[w] # <<>>
    /\ reqs[Head(workers[w])].RequestType \notin DOMAIN requestTypeMap
    /\ workers' = [workers EXCEPT ![w] = Tail(@)]
    /\ finished' = finished \cup {Head(workers[w])}
    /\ UNCHANGED <<caller, autoIndex, storeVars, lockVars, reqs, requestChannel, main, wk,
                   reply, dispatched, routed, started, logged, crashed>>

\* What a handler step leaves alone besides the store, the locks and the reply.
HandlerFrame == UNCHANGED <<caller, autoIndex, queueVars, started>>

\* The handler ends without a panic.
Ends(w) ==
    /\ wk' = Return(w)
    /\ finished' = finished \cup {wk[w].req}
    /\ logged' = logged
    /\ crashed' = crashed

\* The handler logs a warning or an error and returns.
Fails(w, msg) ==
    /\ wk' = Return(w)
    /\ finished' = finished \cup {wk[w].req}
    /\ logged' = logged \cup {<<wk[w].req, msg>>}
    /\ crashed' = crashed

\* The handler goes on.
Continues(next) ==
    wk' = next /\ finished' = finished /\ logged' = logged /\ crashed' = crashed

\* The handler logs a message and goes on.
LogsAndContinues(w, msg, next) ==
    /\ wk' = next
    /\ finished' = finished
    /\ logged' = logged \cup {<<wk[w].req, msg>>}
    /\ crashed' = crashed

\* The handler panics: the goroutine, and with it the process, dies.
Panics(w) ==
    /\ wk' = Goto(w, "panic")
    /\ finished' = finished
    /\ logged' = logged
    /\ crashed' = "panic"

\* The handler logs an error, and then panics.
FailsAndPanics(w, msg) ==
    /\ wk' = Goto(w, "panic")
    /\ finished' = finished
    /\ logged' = logged \cup {<<wk[w].req, msg>>}
    /\ crashed' = "panic"

\* imm.indexes[name] = NewIndex(), the Index object named by the request's id.
WriteIndex(name, id) ==
    /\ indexes' = (name :> id) @@ indexes
    /\ indexDb' = (id :> EmptyMap) @@ indexDb
    /\ idxLock' = (id :> {}) @@ idxLock

\* --- addIndex

\* _, ok := imm.indexes[request.Index]; if ok { return }
AddIndex(w) ==
    /\ At(w, "addIndex")
    /\ IF Req(w).Index \in DOMAIN indexes THEN Fails(w, "Index Exists")
       ELSE Continues(Goto(w, "addIndexWrite"))
    /\ HandlerFrame
    /\ UNCHANGED <<storeVars, lockVars, reply>>

\* imm.indexes[request.Index] = storage.NewIndex()
AddIndexWrite(w) ==
    /\ At(w, "addIndexWrite")
    /\ WriteIndex(Req(w).Index, wk[w].req)
    /\ Ends(w)
    /\ HandlerFrame
    /\ UNCHANGED <<dbEntries, dbLock, reply>>

\* --- addData

\* A variant that makes the index whatever auto-index says.
AddDataAlwaysAuto(w) ==
    /\ At(w, "addData")
    /\ IF Req(w).Index \in DOMAIN indexes
       THEN Continues(GotoIdx(w, "addDataLock", indexes[Req(w).Index]))
       ELSE LogsAndContinues(w, "Auto-Adding Index", Goto(w, "autoAddIndex"))
    /\ HandlerFrame
    /\ UNCHANGED <<storeVars, lockVars, reply>>

\* index, ok := imm.indexes[request.Index]; unknown and no auto-index: return
AddData(w) ==
    /\ At(w, "addData")
    /\ IF Req(w).Index \in DOMAIN indexes
       THEN Continues(GotoIdx(w, "addDataLock", indexes[Req(w).Index]))
       ELSE IF ~autoIndex THEN Fails(w, "unknown index")
       ELSE LogsAndContinues(w, "Auto-Adding Index", Goto(w, "autoAddIndex"))
    /\ HandlerFrame
    /\ UNCHANGED <<storeVars, lockVars, reply>>

\* imm.addIndex(request, requestLogger): its own lookup of the index
AutoAddIndex(w) ==
    /\ At(w, "autoAddIndex")
    /\ IF Req(w).Index \in DOMAIN indexes
       THEN LogsAndContinues(w, "Index Exists", Goto(w, "autoReread"))
       ELSE Continues(Goto(w, "autoAddWrite"))
    /\ HandlerFrame
    /\ UNCHANGED <<storeVars, lockVars, reply>>

\* imm.addIndex: imm.indexes[request.Index] = storage.NewIndex()
AutoAddWrite(w) ==
    /\ At(w, "autoAddWrite")
    /\ WriteIndex(Req(w).Index, wk[w].req)
    /\ Continues(Goto(w, "autoReread"))
    /\ HandlerFrame
    /\ UNCHANGED <<dbEntries, dbLock, reply>>

\* index = imm.indexes[request.Index]
AutoReread(w) ==
    /\ At(w, "autoReread")
    /\ Continues(GotoIdx(w, "addDataLock", indexes[Req(w).Index]))
    /\ HandlerFrame
    /\ UNCHANGED <<storeVars, lockVars, reply>>

\* index.Lock()
AddDataLock(w) ==
    /\ At(w, "addDataLock")
    /\ LockFree(idxLock[wk[w].idx])
    /\ idxLock' = [idxLock EXCEPT ![wk[w].idx] = Locked(@, w)]
    /\ Continues(Goto(w, "addDataGetDB"))
    /\ HandlerFrame
    /\ UNCHANGED <<storeVars, dbLock, reply>>

\* db, err := index.GetDB(request.DB); unknown: NewDatabase, AddDB; index.Unlock()
AddDataGetDB(w) ==
    /\ At(w, "addDataGetDB")
    /\ IF Req(w).DB \in DOMAIN indexDb[wk[w].idx]
       THEN /\ Continues(GotoDb(w, "addDataDbLock", indexDb[wk[w].idx][Req(w).DB]))
            /\ UNCHANGED <<indexDb, dbEntries, dbLock>>
       ELSE /\ Continues(GotoDb(w, "addDataDbLock", wk[w].req))
            /\ indexDb' = [indexDb EXCEPT ![wk[w].idx] = AddDB(@, Req(w).DB, wk[w].req)]
            /\ dbEntries' = (wk[w].req :> EmptyMap) @@ dbEntries
            /\ dbLock' = (wk[w].req :> {}) @@ dbLock
    /\ idxLock' = [idxLock EXCEPT ![wk[w].idx] = Unlocked(@, w)]
    /\ HandlerFrame
    /\ UNCHANGED <<indexes, reply>>

\* db.Lock()
AddDataDbLock(w) ==
    /\ At(w, "addDataDbLock")
    /\ LockFree(dbLock[wk[w].db])
    /\ dbLock' = [dbLock EXCEPT ![wk[w].db] = Locked(@, w)]
    /\ Continues(Goto(w, "addDataPut"))
    /\ HandlerFrame
    /\ UNCHANGED <<storeVars, idxLock, reply>>

\* A variant of the last step of addData without the deferred db.Unlock().
AddDataPutKeepsLock(w) ==
    /\ At(w, "addDataPut")
    /\ dbEntries' = [dbEntries EXCEPT
                       ![wk[w].db] = (Req(w).Entry :> Data(Req(w).Object)) @@ @]
    /\ Ends(w)
    /\ HandlerFrame
    /\ UNCHANGED <<indexes, indexDb, lockVars, reply>>

\* db.AddEntry(request.Entry, &storage.Data{request.Object}); deferred db.Unlock()
AddDataPut(w) ==
    /\ At(w, "addDataPut")
    /\ dbEntries' = [dbEntries EXCEPT
                       ![wk[w].db] = (Req(w).Entry :> Data(Req(w).Object)) @@ @]
    /\ dbLock' = [dbLock EXCEPT ![wk[w].db] = Unlocked(@, w)]
    /\ Ends(w)
    /\ HandlerFrame
    /\ UNCHANGED <<indexes, indexDb, idxLock, reply>>

\* --- clearData

\* index, ok := imm.indexes[request.Index]; unknown: return
ClearData(w) ==
    /\ At(w, "clearData")
    /\ IF Req(w).Index \in DOMAIN indexes
       THEN Continues(GotoIdx(w, "clearLock", indexes[Req(w).Index]))
       ELSE Fails(w, "Error")
    /\ HandlerFrame
    /\ UNCHANGED <<storeVars, lockVars, reply>>

\* index.Lock()
ClearLock(w) ==
    /\ At(w, "clearLock")
    /\ LockFree(idxLock[wk[w].idx])
    /\ idxLock' = [idxLock EXCEPT ![wk[w].idx] = Locked(@, w)]
    /\ Continues(Goto(w, "clearGetDB"))
    /\ HandlerFrame
    /\ UNCHANGED <<storeVars, dbLock, reply>>

\* db, err := index.GetDB(request.DB); error: index.Unlock(), return
ClearGetDB(w) ==
    /\ At(w, "clearGetDB")
    /\ IF Req(w).DB \in DOMAIN indexDb[wk[w].idx]
       THEN Continues(GotoDb(w, "clearDbLock", indexDb[wk[w].idx][Req(w).DB]))
       ELSE Fails(w, "Error Retrieving Database")
    /\ idxLock' = [idxLock EXCEPT ![wk[w].idx] = Unlocked(@, w)]
    /\ HandlerFrame
    /\ UNCHANGED <<storeVars, dbLock, reply>>

\* db.Lock()
ClearDbLock(w) ==
    /\ At(w, "clearDbLock")
    /\ LockFree(dbLock[wk[w].db])
    /\ dbLock' = [dbLock EXCEPT ![wk[w].db] = Locked(@, w)]
    /\ Continues(Goto(w, "clearEntry"))
    /\ HandlerFrame
    /\ UNCHANGED <<storeVars, idxLock, reply>>

\* A variant of the last step of clearData that takes the entry out of the
\* database.
ClearEntryRemoves(w) ==
    /\ At(w, "clearEntry")
    /\ dbEntries' = [dbEntries EXCEPT ![wk[w].db] = Without(@, Req(w).Entry)]
    /\ Ends(w)
    /\ dbLock' = [dbLock EXCEPT ![wk[w].db] = Unlocked(@, w)]
    /\ HandlerFrame
    /\ UNCHANGED <<indexes, indexDb, idxLock, reply>>

\* data, err := db.GetEntry(request.Entry); the error is logged and
\* data.ClearData() is called all the same: on the nil data it panics.
\* The deferred db.Unlock() runs either way.
ClearEntry(w) ==
    /\ At(w, "clearEntry")
    /\ IF Req(w).Entry \in DOMAIN dbEntries[wk[w].db]
          /\ dbEntries[wk[w].db][Req(w).Entry].Object # NilObject
       THEN /\ dbEntries' = [dbEntries EXCEPT ![wk[w].db][Req(w).Entry].cleared = TRUE]
            /\ Ends(w)
       ELSE /\ dbEntries' = dbEntries
            /\ IF Req(w).Entry \in DOMAIN dbEntries[wk[w].db] THEN Panics(w)
               ELSE FailsAndPanics(w, "Error Retrieving Data")
    /\ dbLock' = [dbLock EXCEPT ![wk[w].db] = Unlocked(@, w)]
    /\ HandlerFrame
    /\ UNCHANGED <<indexes, indexDb, idxLock, reply>>

\* --- deleteEntry

\* db, err := imm.indexes[request.Index].GetDB(request.DB): GetDB on the nil
\* Index of an unknown name panics; an unknown database returns.
DeleteEntry(w) ==
    /\ At(w, "deleteEntry")
    /\ IF Req(w).Index \notin DOMAIN indexes THEN Panics(w)
       ELSE IF Req(w).DB \notin DOMAIN indexDb[indexes[Req(w).Index]]
       THEN Fails(w, "Error Retrieving Database")
       ELSE Continues(GotoDb(w, "deleteLock", indexDb[indexes[Req(w).Index]][Req(w).DB]))
    /\ HandlerFrame
    /\ UNCHANGED <<storeVars, lockVars, reply>>

\* db.Lock()
DeleteLock(w) ==
    /\ At(w, "deleteLock")
    /\ LockFree(dbLock[wk[w].db])
    /\ dbLock' = [dbLock EXCEPT ![wk[w].db] = Locked(@, w)]
    /\ Continues(Goto(w, "deleteDo"))
    /\ HandlerFrame
    /\ UNCHANGED <<storeVars, idxLock, reply>>

\* A variant of the last step of deleteEntry that returns on the error
\* without db.Unlock().
DeleteDoKeepsLock(w) ==
    /\ At(w, "deleteDo")
    /\ dbEntries' = [dbEntries EXCEPT ![wk[w].db] = Without(@, Req(w).Entry)]
    /\ dbLock' = IF Req(w).Entry \in DOMAIN dbEntries[wk[w].db]
                  THEN [dbLock EXCEPT ![wk[w].db] = Unlocked(@, w)]
                  ELSE dbLock
    /\ IF Req(w).Entry \in DOMAIN dbEntries[wk[w].db] THEN Ends(w)
       ELSE Fails(w, "Error Retrieving Entry")
    /\ HandlerFrame
    /\ UNCHANGED <<indexes, indexDb, idxLock, reply>>

\* _, err = db.GetEntry(request.Entry); error: db.Unlock(), return;
\* delete(*db.EntryMap(), request.Entry); db.Unlock()
DeleteDo(w) ==
    /\ At(w, "deleteDo")
    /\ dbEntries' = [dbEntries EXCEPT ![wk[w].db] = Without(@, Req(w).Entry)]
    /\ dbLock' = [dbLock EXCEPT ![wk[w].db] = Unlocked(@, w)]
    /\ IF Req(w).Entry \in DOMAIN dbEntries[wk[w].db] THEN Ends(w)
       ELSE Fails(w, "Error Retrieving Entry")
    /\ HandlerFrame
    /\ UNCHANGED <<indexes, indexDb, idxLock, reply>>

\* --- fetchEntryList and fetchEntry

\* defer close(request.Reply)
\* db, err := imm.indexes[request.Index].GetDB(request.DB): GetDB on the nil
\* Index panics (the deferred close runs first); an unknown database returns.
FetchLookup(w, pcHere, pcNext) ==
    /\ At(w, pcHere)
    /\ IF Req(w).Index \notin DOMAIN indexes
       THEN /\ reply' = AfterClose(wk[w].req)
            /\ Panics(w)
       ELSE IF Req(w).DB \notin DOMAIN indexDb[indexes[Req(w).Index]]
       THEN /\ reply' = AfterClose(wk[w].req)
            /\ IF ClosePanics(wk[w].req)
               THEN FailsAndPanics(w, "Error Retrieving Database")
               ELSE Fails(w, "Error Retrieving Database")
       ELSE /\ reply' = reply
            /\ Continues(GotoDb(w, pcNext, indexDb[indexes[Req(w).Index]][Req(w).DB]))
    /\ HandlerFrame
    /\ UNCHANGED <<storeVars, lockVars>>

\* db.RLock()
FetchRLock(w, pcHere, pcNext) ==
    /\ At(w, pcHere)
    /\ RLockFree(dbLock[wk[w].db])
    /\ dbLock' = [dbLock EXCEPT ![wk[w].db] = Locked(@, w)]
    /\ Continues(Goto(w, pcNext))
    /\ HandlerFrame
    /\ UNCHANGED <<storeVars, idxLock, reply>>

\* request.Reply <- v, then the deferred close: the caller receives.
FetchSend(w, pcHere) ==
    /\ At(w, pcHere)
    /\ reply[wk[w].req].state # "nil"
    /\ IF reply[wk[w].req].state = "open"
       THEN reply' = AfterSend(wk[w].req, wk[w].data) /\ Ends(w)
       ELSE reply' = AfterClose(wk[w].req) /\ Panics(w)
    /\ HandlerFrame
    /\ UNCHANGED <<storeVars, lockVars>>

FetchEntryList(w) == FetchLookup(w, "fetchEntryList", "fetchListLock")

FetchListLock(w) == FetchRLock(w, "fetchListLock", "fetchListRead")

\* A variant that keeps the database locked until the list has been sent.
FetchListReadKeepsLock(w) ==
    /\ At(w, "fetchListRead")
    /\ Continues(GotoData(w, "fetchListSend", DOMAIN dbEntries[wk[w].db]))
    /\ HandlerFrame
    /\ UNCHANGED <<storeVars, lockVars, reply>>

\* entries := *db.EntryMap(); the keys are copied; db.RUnlock()
FetchListRead(w) ==
    /\ At(w, "fetchListRead")
    /\ dbLock' = [dbLock EXCEPT ![wk[w].db] = Unlocked(@, w)]
    /\ Continues(GotoData(w, "fetchListSend", DOMAIN dbEntries[wk[w].db]))
    /\ HandlerFrame
    /\ UNCHANGED <<storeVars, idxLock, reply>>

FetchListSend(w) == FetchSend(w, "fetchListSend")

FetchEntry(w) == FetchLookup(w, "fetchEntry", "fetchEntryLock")

FetchEntryLock(w) == FetchRLock(w, "fetchEntryLock", "fetchEntryRead")

\* A variant whose error path closes the reply itself before the deferred close.
FetchEntryReadClosingTwice(w) ==
    /\ At(w, "fetchEntryRead")
    /\ dbLock' = [dbLock EXCEPT ![wk[w].db] = Unlocked(@, w)]
    /\ IF Req(w).Entry \in DOMAIN dbEntries[wk[w].db]
       THEN /\ reply' = reply
            /\ Continues(GotoData(w, "fetchEntrySend", dbEntries[wk[w].db][Req(w).Entry]))
       ELSE /\ reply' = [reply EXCEPT ![wk[w].req] =
                            [@ EXCEPT !.state = "closed", !.closes = @ + 2]]
            /\ Panics(w)
    /\ HandlerFrame
    /\ UNCHANGED <<storeVars, idxLock>>

\* data, err := db.GetEntry(request.Entry); error: db.RUnlock(), return (the
\* deferred close runs); db.RUnlock()
FetchEntryRead(w) ==
    /\ At(w, "fetchEntryRead")
    /\ dbLock' = [dbLock EXCEPT ![wk[w].db] = Unlocked(@, w)]
    /\ IF Req(w).Entry \in DOMAIN dbEntries[wk[w].db]
       THEN /\ reply' = reply
            /\ Continues(GotoData(w, "fetchEntrySend", dbEntries[wk[w].db][Req(w).Entry]))
       ELSE /\ reply' = AfterClose(wk[w].req)
            /\ IF ClosePanics(wk[w].req)
               THEN FailsAndPanics(w, "Error Retrieving Entry")
               ELSE Fails(w, "Error Retrieving Entry")
    /\ HandlerFrame
    /\ UNCHANGED <<storeVars, idxLock>>

FetchEntrySend(w) == FetchSend(w, "fetchEntrySend")

\* --- the unsynchronised maps

\* Worker w is about to read imm.indexes, which no lock guards.
ReadsIndexes(w) ==
    wk[w].pc \in {"addIndex", "addData", "autoAddIndex", "autoReread", "clearData",
                  "deleteEntry", "fetchEntryList", "fetchEntry"}

\* Worker w is about to write imm.indexes.
WritesIndexes(w) == wk[w].pc \in {"addIndexWrite", "autoAddWrite"}

\* Worker w is about to read the db map of the Index object i without its lock.
ReadsDbUnlocked(w, i) ==
    /\ wk[w].pc \in {"deleteEntry", "fetchEntryList", "fetchEntry", "teamDeleteEntry",
                    "teamFetchEntryList", "teamFetchEntry", "fetchAllEntries"}
    /\ Req(w).Index \in DOMAIN indexes
    /\ indexes[Req(w).Index] = i

\* Worker w is about to add a database to the db map of the Index object i.
WritesDb(w, i) ==
    /\ wk[w].pc = "addDataGetDB"
    /\ wk[w].idx = i
    /\ Req(w).DB \notin DOMAIN indexDb[i]

\* Two workers are about to access the same Go map, one of them writing.
MapRace ==
    \E u, v \in Workers :
        /\ u # v
        /\ \/ WritesIndexes(u) /\ (ReadsIndexes(v) \/ WritesIndexes(v))
           \/ \E i \in DOMAIN indexDb : WritesDb(u, i) /\ ReadsDbUnlocked(v, i)

\* The two accesses overlap and the Go runtime detects it ("fatal error:
\* concurrent map read and map write"): the process dies, no deferred call runs.
\* When it does not, the accesses take effect in either order (the handler steps).
ConcurrentMapAccess ==
    /\ crashed = "no"
    /\ MapRace
    /\ crashed' = "fatal"
    /\ UNCHANGED <<caller, autoIndex, storeVars, lockVars, queueVars, wk, reply, started,
                   finished, logged>>

\* ------------------------------------------------------------ specification

Handler(w) ==
    \/ AddIndex(w) \/ AddIndexWrite(w)
    \/ AddData(w) \/ AutoAddIndex(w) \/ AutoAddWrite(w) \/ AutoReread(w)
    \/ AddDataLock(w) \/ AddDataGetDB(w) \/ AddDataDbLock(w) \/ AddDataPut(w)
    \/ ClearData(w) \/ ClearLock(w) \/ ClearGetDB(w) \/ ClearDbLock(w) \/ ClearEntry(w)
    \/ DeleteEntry(w) \/ DeleteLock(w) \/ DeleteDo(w)
    \/ FetchEntryList(w) \/ FetchListLock(w) \/ FetchListRead(w) \/ FetchListSend(w)
    \/ FetchEntry(w) \/ FetchEntryLock(w) \/ FetchEntryRead(w) \/ FetchEntrySend(w)

MainLoop == MainRouteAny \/ MainRouteConsistent \/ MainUnknown \/ MainSend

Next ==
    \/ \E q \in Menu : Submit(q)
    \/ MainLoop
    \/ \E w \in Workers : WorkerCall(w) \/ WorkerSkip(w) \/ Handler(w)
    \/ ConcurrentMapAccess

Spec == Init /\ [][Next]_vars

\* --------------------------------------------------------------------- Stop
(***************************************************************************)
(* InMemoryModule.Stop, called once on the started module.  caller.pc is    *)
(* the position of the call and caller.results the worker channels it has   *)
(* closed so far.  The Coordinator stops its forwarder before it stops the  *)
(* module, so no producer sends once Stop has been called.                  *)
(***************************************************************************)

\* The requests the producers choose from before Stop is called.
StopMenu ==
    {Request(StorageSetIndex, FALSE, a, Empty, Empty, NilObject),
     Request(StorageSetData, FALSE, a, x, k, "P1"),
     Request(StorageSetDeleteEntry, FALSE, a, x, k, NilObject),
     Request(StorageClearData, FALSE, a, x, k, NilObject),
     Request(StorageFetchIndexes, TRUE, Empty, Empty, Empty, NilObject),
     Request(StorageFetchEntries, TRUE, a, x, Empty, NilObject),
     Request(StorageFetchEntry, TRUE, a, x, k, NilObject)}
    \cup {Request(t, TRUE, a, x, k, NilObject) : t \in UnknownTypes}

\* close(module.requestChannel) has been done.
InboundClosed == caller.pc # "start"

\* close(module.workers[w]) has been done.
WorkerClosed(w) == \E i \in DOMAIN caller.results : caller.results[i] = w

\* A producer's send, while the forwarder runs.
StopSubmit == caller.pc = "start" /\ \E q \in StopMenu : Submit(q)

\* Stop: close(module.requestChannel), then module.mainRunning.Wait().
StopCloseInbound ==
    /\ crashed = "no"
    /\ caller.pc = "start"
    /\ caller' = [caller EXCEPT !.pc = "mainWait"]
    /\ UNCHANGED <<autoIndex, storeVars, lockVars, queueVars, wk, reply, started,
                   finished, logged, crashed>>

\* mainLoop: the range over the closed and drained requestChannel ends, the
\* deferred mainRunning.Done runs.
MainExit ==
    /\ crashed = "no"
    /\ main.pc = "recv"
    /\ requestChannel = <<>>
    /\ InboundClosed
    /\ main' = [main EXCEPT !.pc = "exit"]
    /\ UNCHANGED <<caller, autoIndex, storeVars, lockVars, reqs, requestChannel,
                   workers, dispatched, routed, wk, reply, started, finished,
                   logged, crashed>>

\* A variant of the wait that returns while mainLoop still runs.
StopMainNotWaited ==
    /\ crashed = "no"
    /\ caller.pc = "mainWait"
    /\ caller' = [caller EXCEPT !.pc = "closeWorkers"]
    /\ UNCHANGED <<autoIndex, storeVars, lockVars, queueVars, wk, reply, started,
                   finished, logged, crashed>>

\* Stop: mainRunning.Wait() returns once mainLoop has exited.
StopMainWaited ==
    /\ crashed = "no"
    /\ caller.pc = "mainWait"
    /\ main.pc = "exit"
    /\ caller' = [caller EXCEPT !.pc = "closeWorkers"]
    /\ UNCHANGED <<autoIndex, storeVars, lockVars, queueVars, wk, reply, started,
                   finished, logged, crashed>>

\* Stop: for i := 0; i < numWorkers; i++ { close(module.workers[i]) }, then
\* module.workersRunning.Wait().
StopCloseWorker ==
    /\ crashed = "no"
    /\ caller.pc = "closeWorkers"
    /\ caller' = [pc |-> IF Len(caller.results) + 1 = NumWorkers
                         THEN "workersWait" ELSE "closeWorkers",
                  results |-> Append(caller.results, Len(caller.results))]
    /\ UNCHANGED <<autoIndex, storeVars, lockVars, queueVars, wk, reply, started,
                   finished, logged, crashed>>

\* requestWorker: the range over the closed and drained channel ends, the
\* deferred workersRunning.Done runs.
WorkerExit(w) ==
    /\ At(w, "idle")
    /\ workers[w] = <<>>
    /\ WorkerClosed(w)
    /\ wk' = [wk EXCEPT ![w].pc = "exit"]
    /\ UNCHANGED <<caller, autoIndex, storeVars, lockVars, queueVars, reply, started,
                   finished, logged, crashed>>

\* Stop: workersRunning.Wait() returns once every worker has exited; return nil.
StopReturn ==
    /\ crashed = "no"
    /\ caller.pc = "workersWait"
    /\ \A w \in Workers : wk[w].pc = "exit"
    /\ caller' = [caller EXCEPT !.pc = "returned"]
    /\ UNCHANGED <<autoIndex, storeVars, lockVars, queueVars, wk, reply, started,
                   finished, logged, crashed>>

StopCall == StopCloseInbound \/ StopMainWaited \/ StopCloseWorker \/ StopReturn

StopNext ==
    \/ StopSubmit
    \/ MainLoop
    \/ MainExit
    \/ \E w \in Workers : WorkerCall(w) \/ WorkerSkip(w) \/ Handler(w) \/ WorkerExit(w)
    \/ ConcurrentMapAccess
    \/ StopCall

SpecStop == Init /\ [][StopNext]_vars

\* The Go scheduler runs mainLoop, every worker and the goroutine that called
\* Stop whenever they can take a step.
SpecStopFair ==
    /\ SpecStop
    /\ WF_vars(MainLoop \/ MainExit)
    /\ \A w \in Workers :
        WF_vars(WorkerCall(w) \/ WorkerSkip(w) \/ Handler(w) \/ WorkerExit(w))
    /\ WF_vars(StopMainWaited \/ StopCloseWorker \/ StopReturn)

\* ------------------------------------------------- the team-based module
(***************************************************************************)
(* Module (inmemory): the same store behind a Datastore whose map of       *)
(* indexes has its own mutex, and handlers run by the workers of a         *)
(* team.Team.  The team library is not part of the repository: a request   *)
(* may be handed to any worker that is between two requests.               *)
(***************************************************************************)

TypeSetIndex == 0

TypeSetEntry == 1

TypeDeleteEntry == 2

TypeFetchIndexes == 3

TypeFetchEntries == 4

TypeFetchEntry == 5

TypeFetchDatabases == 6

TypeFetchAllEntries == 7

\* The requests the callers of SendRequest choose from.
TeamMenu ==
    {Request(TypeSetIndex, FALSE, a, Empty, Empty, NilObject),
     Request(TypeSetEntry, FALSE, a, x, k, "P1"),
     Request(TypeSetEntry, FALSE, a, y, k, "P2"),
     Request(TypeDeleteEntry, FALSE, a, x, k, NilObject),
     Request(TypeDeleteEntry, FALSE, b, x, k, NilObject),
     Request(TypeFetchIndexes, TRUE, Empty, Empty, Empty, NilObject),
     Request(TypeFetchDatabases, TRUE, a, Empty, Empty, NilObject),
     Request(TypeFetchEntries, TRUE, a, y, Empty, NilObject),
     Request(TypeFetchEntry, TRUE, a, x, k, NilObject),
     Request(TypeFetchEntry, TRUE, a, x, l, NilObject),
     Request(TypeFetchAllEntries, TRUE, a, x, Empty, NilObject)}

\* requestMap (All and Consistent): request type -> handler.
requestMap ==
    (TypeSetIndex :> "teamAddIndex") @@ (TypeSetEntry :> "teamAddEntry")
    @@ (TypeDeleteEntry :> "teamDeleteEntry") @@ (TypeFetchIndexes :> "fetchIndexList")
    @@ (TypeFetchDatabases :> "fetchDBList") @@ (TypeFetchEntries :> "teamFetchEntryList")
    @@ (TypeFetchEntry :> "teamFetchEntry") @@ (TypeFetchAllEntries :> "fetchAllEntries")

\* NewModule: AutoIndex from the Config, moduleStorage = New(), an empty store.
TeamInit ==
    /\ autoIndex \in BOOLEAN
    /\ indexes = EmptyMap
    /\ indexDb = EmptyMap
    /\ idxLock = EmptyMap
    /\ dbEntries = EmptyMap
    /\ dbLock = EmptyMap
    /\ reqs = <<>>
    /\ requestChannel = <<>>
    /\ workers = [w \in Workers |-> <<>>]
    /\ main = [pc |-> "recv", req |-> Nil, target |-> 0]
    /\ wk = [w \in Workers |-> IdleWorker]
    /\ reply = <<>>
    /\ dispatched = <<>>
    /\ routed = <<>>
    /\ started = {}
    /\ finished = {}
    /\ logged = {}
    /\ crashed = "no"
    /\ caller = NoCaller

\* SendRequest: the team hands the request to a worker, which calls the
\* handler of its type.
TeamRun(w, q) ==
    /\ At(w, "idle")
    /\ Len(reqs) < MaxRequests
    /\ reqs' = Append(reqs, q)
    /\ reply' = Append(reply, NewReply(q))
    /\ wk' = [wk EXCEPT ![w].pc = requestMap[q.RequestType], ![w].req = Len(reqs) + 1]
    /\ started' = started \cup {Len(reqs) + 1}
    /\ UNCHANGED <<caller, autoIndex, storeVars, lockVars, requestChannel, workers, main,
                   dispatched, routed, finished, logged, crashed>>

\* --- addIndex

\* index := moduleStorage.GetIndex(request.Index); if index == nil { return }
TeamAddIndex(w) ==
    /\ At(w, "teamAddIndex")
    /\ IF Req(w).Index \notin DOMAIN indexes THEN Fails(w, "Index Exists")
       ELSE Continues(Goto(w, "teamNewIndex"))
    /\ HandlerFrame
    /\ UNCHANGED <<storeVars, lockVars, reply>>

\* moduleStorage.NewIndex(request.Index): D.indexes[name] = i under D.idx
TeamNewIndex(w) ==
    /\ At(w, "teamNewIndex")
    /\ WriteIndex(Req(w).Index, wk[w].req)
    /\ Ends(w)
    /\ HandlerFrame
    /\ UNCHANGED <<dbEntries, dbLock, reply>>

\* --- addEntry

\* index := moduleStorage.GetIndex(request.Index); nil and !AutoIndex: return
TeamAddEntry(w) ==
    /\ At(w, "teamAddEntry")
    /\ IF Req(w).Index \in DOMAIN indexes
       THEN Continues(GotoIdx(w, "addDataLock", indexes[Req(w).Index]))
       ELSE IF ~autoIndex THEN Fails(w, "unknown index")
       ELSE LogsAndContinues(w, "Auto-Adding Index", Goto(w, "teamAutoIndex"))
    /\ HandlerFrame
    /\ UNCHANGED <<storeVars, lockVars, reply>>

\* index = moduleStorage.NewIndex(request.Index); the handler goes on with
\* index.Lock() and the rest, as addData does
TeamAutoIndex(w) ==
    /\ At(w, "teamAutoIndex")
    /\ WriteIndex(Req(w).Index, wk[w].req)
    /\ Continues(GotoIdx(w, "addDataLock", wk[w].req))
    /\ HandlerFrame
    /\ UNCHANGED <<dbEntries, dbLock, reply>>

\* --- deleteEntry

\* db := moduleStorage.Get(request.Index).GetDB(request.DB): GetDB on the nil
\* Index panics; if db.err != nil { return }; then db.Lock() and the rest
TeamDeleteEntry(w) ==
    /\ At(w, "teamDeleteEntry")
    /\ IF Req(w).Index \notin DOMAIN indexes THEN Panics(w)
       ELSE IF Req(w).DB \notin DOMAIN indexDb[indexes[Req(w).Index]]
       THEN Fails(w, "Error Retrieving Database")
       ELSE Continues(GotoDb(w, "deleteLock", indexDb[indexes[Req(w).Index]][Req(w).DB]))
    /\ HandlerFrame
    /\ UNCHANGED <<storeVars, lockVars, reply>>

\* --- fetchEntryList, fetchEntry, fetchAllEntries

\* A variant that answers an unknown database with a nil value.
TeamFetchLookupSendsNil(w, pcHere, pcNext) ==
    /\ At(w, pcHere)
    /\ IF Req(w).Index \notin DOMAIN indexes
       THEN /\ reply' = AfterClose(wk[w].req)
            /\ Panics(w)
       ELSE IF Req(w).DB \notin DOMAIN indexDb[indexes[Req(w).Index]]
       THEN /\ reply' = AfterSend(wk[w].req, NilObject)
            /\ Fails(w, "Error Retrieving Database")
       ELSE /\ reply' = reply
            /\ Continues(GotoDb(w, pcNext, indexDb[indexes[Req(w).Index]][Req(w).DB]))
    /\ HandlerFrame
    /\ UNCHANGED <<storeVars, lockVars>>

\* defer close(request.Reply)
\* db := moduleStorage.Get(request.Index).GetDB(request.DB): GetDB on the nil
\* Index panics (the deferred close runs first); if db.err != nil { return }
TeamFetchLookup(w, pcHere, pcNext) ==
    /\ At(w, pcHere)
    /\ IF Req(w).Index \notin DOMAIN indexes
       THEN /\ reply' = AfterClose(wk[w].req)
            /\ Panics(w)
       ELSE IF Req(w).DB \notin DOMAIN indexDb[indexes[Req(w).Index]]
       THEN /\ reply' = AfterClose(wk[w].req)
            /\ IF ClosePanics(wk[w].req)
               THEN FailsAndPanics(w, "Error Retrieving Database")
               ELSE Fails(w, "Error Retrieving Database")
       ELSE /\ reply' = reply
            /\ Continues(GotoDb(w, pcNext, indexDb[indexes[Req(w).Index]][Req(w).DB]))
    /\ HandlerFrame
    /\ UNCHANGED <<storeVars, lockVars>>

\* fetchEntryList goes on with db.RLock() and the rest, as in InMemoryModule.
TeamFetchEntryList(w) == TeamFetchLookup(w, "teamFetchEntryList", "fetchListLock")

\* fetchEntry goes on with db.RLock() and the rest, as in InMemoryModule.
TeamFetchEntry(w) == TeamFetchLookup(w, "teamFetchEntry", "fetchEntryLock")

FetchAllEntries(w) == TeamFetchLookup(w, "fetchAllEntries", "fetchAllLock")

FetchAllLock(w) == FetchRLock(w, "fetchAllLock", "fetchAllRead")

\* entries := *db.EntryMap(); the entries are copied; db.RUnlock()
FetchAllRead(w) ==
    /\ At(w, "fetchAllRead")
    /\ dbLock' = [dbLock EXCEPT ![wk[w].db] = Unlocked(@, w)]
    /\ Continues(GotoData(w, "fetchAllSend", dbEntries[wk[w].db]))
    /\ HandlerFrame
    /\ UNCHANGED <<storeVars, idxLock, reply>>

FetchAllSend(w) == FetchSend(w, "fetchAllSend")

\* --- fetchIndexList

\* defer close(request.Reply); the names are copied under idx.RLock()
FetchIndexList(w) ==
    /\ At(w, "fetchIndexList")
    /\ Continues(GotoData(w, "fetchIndexSend", DOMAIN indexes))
    /\ HandlerFrame
    /\ UNCHANGED <<storeVars, lockVars, reply>>

FetchIndexSend(w) == FetchSend(w, "fetchIndexSend")

\* --- fetchDBList

\* defer close(request.Reply)
\* index := moduleStorage.GetIndex(request.Index); if index == nil { return }
FetchDBList(w) ==
    /\ At(w, "fetchDBList")
    /\ IF Req(w).Index \notin DOMAIN indexes
       THEN /\ reply' = AfterClose(wk[w].req)
            /\ IF ClosePanics(wk[w].req) THEN FailsAndPanics(w, "unknown index")
               ELSE Fails(w, "unknown index")
       ELSE /\ reply' = reply
            /\ Continues(GotoIdx(w, "fetchDBLock", indexes[Req(w).Index]))
    /\ HandlerFrame
    /\ UNCHANGED <<storeVars, lockVars>>

\* index.Lock()
FetchDBLock(w) ==
    /\ At(w, "fetchDBLock")
    /\ LockFree(idxLock[wk[w].idx])
    /\ idxLock' = [idxLock EXCEPT ![wk[w].idx] = Locked(@, w)]
    /\ Continues(Goto(w, "fetchDBRead"))
    /\ HandlerFrame
    /\ UNCHANGED <<storeVars, dbLock, reply>>

\* the names in index.db are copied; index.Unlock()
FetchDBRead(w) ==
    /\ At(w, "fetchDBRead")
    /\ idxLock' = [idxLock EXCEPT ![wk[w].idx] = Unlocked(@, w)]
    /\ Continues(GotoData(w, "fetchDBSend", DOMAIN indexDb[wk[w].idx]))
    /\ HandlerFrame
    /\ UNCHANGED <<storeVars, dbLock, reply>>

FetchDBSend(w) == FetchSend(w, "fetchDBSend")

\* The handlers of the team-based module; addEntry, deleteEntry, fetchEntryList
\* and fetchEntry end with the steps of their InMemoryModule counterparts.
TeamHandler(w) ==
    \/ TeamAddIndex(w) \/ TeamNewIndex(w)
    \/ TeamAddEntry(w) \/ TeamAutoIndex(w)
    \/ AddDataLock(w) \/ AddDataGetDB(w) \/ AddDataDbLock(w) \/ AddDataPut(w)
    \/ TeamDeleteEntry(w) \/ DeleteLock(w) \/ DeleteDo(w)
    \/ TeamFetchEntryList(w) \/ FetchListLock(w) \/ FetchListRead(w) \/ FetchListSend(w)
    \/ TeamFetchEntry(w) \/ FetchEntryLock(w) \/ FetchEntryRead(w) \/ FetchEntrySend(w)
    \/ FetchAllEntries(w) \/ FetchAllLock(w) \/ FetchAllRead(w) \/ FetchAllSend(w)
    \/ FetchIndexList(w) \/ FetchIndexSend(w)
    \/ FetchDBList(w) \/ FetchDBLock(w) \/ FetchDBRead(w) \/ FetchDBSend(w)

TeamNext ==
    \/ \E w \in Workers, q \in TeamMenu : TeamRun(w, q)
    \/ \E w \in Workers : TeamHandler(w)
    \/ ConcurrentMapAccess

SpecTeam == TeamInit /\ [][TeamNext]_vars

\* ------------------------------------------------------- the exported API
(***************************************************************************)
(* One caller of the exported functions: it holds a RequestBuilder and     *)
(* calls IsValid, Validate, CreateRequest, TimeoutSendStorageRequest and   *)
(* Index.AddDB, at most MaxCalls times.  The builder is reqs[1] and its    *)
(* Reply channel is reply[1]; a listener drains the inbound channel when   *)
(* it is scheduled.                                                        *)
(***************************************************************************)

\* The fields of a RequestBuilder, every combination of them.
Builders ==
    {Request(t, r, i, d, e, o) :
        t \in TypeSetIndex .. TypeFetchAllEntries, r \in BOOLEAN,
        i \in {Empty, a}, d \in {Empty, x}, e \in {Empty, k},
        o \in {NilObject, "P1"}}

\* convertFromBuilder: the Request with the builder's fields.
convertFromBuilder(sr) ==
    Request(sr.RequestType, sr.Reply, sr.Index, sr.DB, sr.Entry, sr.Object)

\* A variant of the default case that lets a FetchEntries carry an entry key.
FetchDefaultAnyEntry(sr) ==
    IF /\ sr.RequestType = TypeFetchIndexes
       /\ (sr.DB # Empty \/ sr.Index # Empty \/ sr.Entry # Empty)
    THEN FALSE
    ELSE TRUE

\* IsValid, fetch types, the default case of the inner switch.
FetchDefault(sr) ==
    IF /\ sr.RequestType = TypeFetchIndexes
       /\ (sr.DB # Empty \/ sr.Index # Empty \/ sr.Entry # Empty)
    THEN FALSE
    ELSE IF sr.RequestType = TypeFetchEntries /\ sr.Entry # Empty
    THEN FALSE
    ELSE TRUE

\* IsValid, fetch types, `case sr.Entry == ""`, which falls through.
FetchNoEntry(sr) ==
    IF sr.RequestType = TypeFetchEntry THEN FALSE ELSE FetchDefault(sr)

\* IsValid, fetch types, `case sr.DB == "" || sr.Index == ""`, which falls
\* through.
FetchNoAddress(sr) ==
    IF sr.RequestType \in {TypeFetchEntries, TypeFetchEntry}
    THEN FALSE
    ELSE FetchNoEntry(sr)

\* IsValid, set types, the default case of the inner switch.
SetDefault(sr) ==
    IF sr.RequestType = TypeSetIndex /\ (sr.DB # Empty \/ sr.Entry # Empty)
    THEN FALSE
    ELSE TRUE

\* IsValid, set types, `case sr.DB == "" || sr.Entry == ""`, which falls
\* through.
SetNoKey(sr) ==
    IF sr.RequestType \in {TypeSetEntry, TypeDeleteEntry}
    THEN FALSE
    ELSE SetDefault(sr)

\* RequestBuilder.IsValid and Request.IsValid: sr.Reply is "Reply is not nil".
IsValid(sr) ==
    IF sr.RequestType \in {TypeFetchIndexes, TypeFetchEntries, TypeFetchEntry}
    THEN IF ~sr.Reply THEN FALSE
         ELSE IF sr.DB = Empty \/ sr.Index = Empty THEN FetchNoAddress(sr)
         ELSE IF sr.Entry = Empty THEN FetchNoEntry(sr)
         ELSE FetchDefault(sr)
    ELSE IF sr.RequestType \in {TypeSetIndex, TypeSetEntry, TypeDeleteEntry}
    THEN IF sr.Reply THEN FALSE
         ELSE IF sr.Index = Empty THEN FALSE
         ELSE IF sr.DB = Empty \/ sr.Entry = Empty THEN SetNoKey(sr)
         ELSE SetDefault(sr)
    ELSE FALSE

\* RequestBuilder.Validate and Request.Validate: the same switch, returning
\* the request with the verdict.
Validate(sr) == <<convertFromBuilder(sr), IsValid(sr)>>

\* The caller holds a builder; the store holds index a with database x and
\* the entry k in it.
ApiInit ==
    /\ autoIndex = TRUE
    /\ indexes = (a :> 1)
    /\ indexDb = (1 :> (x :> 1))
    /\ idxLock = (1 :> {})
    /\ dbEntries = (1 :> (k :> Data("P1")))
    /\ dbLock = (1 :> {})
    /\ \E sr \in Builders :
        /\ reqs = <<sr>>
        /\ reply = <<NewReply(sr)>>
    /\ requestChannel = <<>>
    /\ workers = [w \in Workers |-> <<>>]
    /\ main = [pc |-> "recv", req |-> Nil, target |-> 0]
    /\ wk = [w \in Workers |-> IdleWorker]
    /\ dispatched = <<>>
    /\ routed = <<>>
    /\ started = {}
    /\ finished = {}
    /\ logged = {}
    /\ crashed = "no"
    /\ caller = NoCaller

\* What no exported function touches.
ApiFrame ==
    UNCHANGED <<autoIndex, indexes, idxLock, workers, main, wk, routed,
                started, finished, logged>>

\* The caller is between two calls and may make another.
CanCall ==
    /\ crashed = "no"
    /\ caller.pc = "start"
    /\ Len(caller.results) < MaxCalls

\* The call returns v to the caller.
Returns(op, v) ==
    caller' = [pc |-> "start", results |-> Append(caller.results, <<op, v>>)]

\* A variant of the call that sends a request it finds malformed to the
\* inbound channel.
CallIsValidEnqueues ==
    /\ CanCall
    /\ Returns("IsValid", IsValid(reqs[1]))
    /\ requestChannel' = IF IsValid(reqs[1]) THEN requestChannel
                          ELSE Append(requestChannel, 1)
    /\ ApiFrame
    /\ UNCHANGED <<indexDb, dbEntries, dbLock, reqs, reply, dispatched, crashed>>

\* sr.IsValid()
CallIsValid ==
    /\ CanCall
    /\ Returns("IsValid", IsValid(reqs[1]))
    /\ ApiFrame
    /\ UNCHANGED <<indexDb, dbEntries, dbLock, reqs, reply, requestChannel,
                   dispatched, crashed>>

\* sr.Validate()
CallValidate ==
    /\ CanCall
    /\ Returns("Validate", Validate(reqs[1])[2])
    /\ ApiFrame
    /\ UNCHANGED <<indexDb, dbEntries, dbLock, reqs, reply, requestChannel,
                   dispatched, crashed>>

\* The builder needs a Reply channel made: a fetch type with a nil Reply.
MakesReply ==
    /\ reqs[1].RequestType \in {TypeFetchIndexes, TypeFetchEntries, TypeFetchEntry}
    /\ ~reqs[1].Reply

\* The builder and its channel after the lazy make(chan interface{}).
WithReply ==
    IF MakesReply THEN [reqs EXCEPT ![1].Reply = TRUE] ELSE reqs

ReplyMade ==
    IF MakesReply THEN [reply EXCEPT ![1].state = "open"] ELSE reply

\* sr.CreateRequest(): makes the Reply of a fetch type, validates nothing.
CallBuilderCreateRequest ==
    /\ CanCall
    /\ reqs' = WithReply
    /\ reply' = ReplyMade
    /\ Returns("RequestBuilder.CreateRequest", TRUE)
    /\ ApiFrame
    /\ UNCHANGED <<indexDb, dbEntries, dbLock, requestChannel, dispatched,
                   crashed>>

\* CreateRequest(sr): makes the Reply of a fetch type, validates, and on
\* failure closes sr.Reply, which panics on a nil and on a closed channel.
CallCreateRequest ==
    /\ CanCall
    /\ reqs' = WithReply
    /\ IF IsValid(WithReply[1])
       THEN /\ reply' = ReplyMade
            /\ Returns("CreateRequest", TRUE)
            /\ crashed' = crashed
       ELSE IF ReplyMade[1].state # "open"
       THEN /\ reply' = ReplyMade
            /\ caller' = [caller EXCEPT !.pc = "panic"]
            /\ crashed' = "panic"
       ELSE /\ reply' = [ReplyMade EXCEPT ![1].state = "closed",
                                          ![1].closes = @ + 1]
            /\ Returns("CreateRequest", FALSE)
            /\ crashed' = crashed
    /\ ApiFrame
    /\ UNCHANGED <<indexDb, dbEntries, dbLock, requestChannel, dispatched>>

\* TimeoutSendStorageRequest: the timer is started and the select entered.
TimeoutSendCall ==
    /\ CanCall
    /\ caller' = [caller EXCEPT !.pc = "select"]
    /\ ApiFrame
    /\ UNCHANGED <<indexDb, dbEntries, dbLock, reqs, reply, requestChannel,
                   dispatched, crashed>>

\* case storageChannel <- request: return true
TimeoutSendAccepted ==
    /\ crashed = "no"
    /\ caller.pc = "select"
    /\ Len(requestChannel) < QueueDepth
    /\ requestChannel' = Append(requestChannel, 1)
    /\ Returns("TimeoutSend", TRUE)
    /\ ApiFrame
    /\ UNCHANGED <<indexDb, dbEntries, dbLock, reqs, reply, dispatched,
                   crashed>>

\* A variant of the timeout case in which the send goes through all the same.
TimeoutSendExpiredDelivers ==
    /\ crashed = "no"
    /\ caller.pc = "select"
    /\ Returns("TimeoutSend", FALSE)
    /\ requestChannel' = Append(requestChannel, 1)
    /\ ApiFrame
    /\ UNCHANGED <<indexDb, dbEntries, dbLock, reqs, reply, dispatched, crashed>>

\* case <-timeout: return false
TimeoutSendExpired ==
    /\ crashed = "no"
    /\ caller.pc = "select"
    /\ Returns("TimeoutSend", FALSE)
    /\ ApiFrame
    /\ UNCHANGED <<indexDb, dbEntries, dbLock, reqs, reply, requestChannel,
                   dispatched, crashed>>

\* The listener takes the request at the head of the inbound channel.
ListenerTake ==
    /\ \E r \in 1 .. Len(reqs) : MainTake(r)
    /\ ApiFrame
    /\ UNCHANGED <<caller, indexDb, dbEntries, dbLock, reqs, reply, crashed>>

\* index.AddDB(name, NewDatabase()) on index a.
CallAddDB ==
    /\ CanCall
    /\ \E name \in DbNames :
        LET database == Len(caller.results) + 2
        IN /\ indexDb' = [indexDb EXCEPT ![indexes[a]] = AddDB(@, name, database)]
           /\ dbEntries' = (database :> EmptyMap) @@ dbEntries
           /\ dbLock' = (database :> {}) @@ dbLock
    /\ Returns("AddDB", TRUE)
    /\ ApiFrame
    /\ UNCHANGED <<reqs, reply, requestChannel, dispatched, crashed>>

ApiNext ==
    \/ CallIsValid
    \/ CallValidate
    \/ CallBuilderCreateRequest
    \/ CallCreateRequest
    \/ TimeoutSendCall
    \/ TimeoutSendAccepted
    \/ TimeoutSendExpired
    \/ ListenerTake
    \/ CallAddDB

SpecApi == ApiInit /\ [][ApiNext]_vars

\* The timer of TimeoutSendStorageRequest fires maxTime seconds after the
\* call, so a caller in the select is not left there.
SpecApiFair == SpecApi /\ WF_vars(TimeoutSendExpired)

\* ------------------------------------------------- consistent identifiers
(***************************************************************************)
(* Request.ConsistID (inmemory): the string the team hashes to choose the  *)
(* worker of a request whose type is in requestMap.Consistent.             *)
(***************************************************************************)

\* func (r *Request) ConsistID() string { return r.DB + r.Entry }
ConsistID(r) == r.DB \o r.Entry

\* The requests whose identifiers are compared: types of requestMap.Consistent.
ConsistRequests ==
    {Request(t, t = TypeFetchEntry, i, d, e, NilObject) :
        t \in {TypeSetEntry, TypeFetchEntry}, i \in IndexNames, d \in DbNames,
        e \in EntryNames}

\* Two requests have been built; nothing has been sent.
ConsistInit ==
    /\ autoIndex = TRUE
    /\ indexes = EmptyMap
    /\ indexDb = EmptyMap
    /\ idxLock = EmptyMap
    /\ dbEntries = EmptyMap
    /\ dbLock = EmptyMap
    /\ \E q1, q2 \in ConsistRequests :
        /\ reqs = <<q1, q2>>
        /\ reply = <<NewReply(q1), NewReply(q2)>>
    /\ requestChannel = <<>>
    /\ workers = [w \in Workers |-> <<>>]
    /\ main = [pc |-> "recv", req |-> Nil, target |-> 0]
    /\ wk = [w \in Workers |-> IdleWorker]
    /\ dispatched = <<>>
    /\ routed = <<>>
    /\ started = {}
    /\ finished = {}
    /\ logged = {}
    /\ crashed = "no"
    /\ caller = NoCaller

\* The team asks the next request for its identifier.
CallConsistID ==
    /\ Len(caller.results) < Len(reqs)
    /\ Returns("ConsistID", ConsistID(reqs[Len(caller.results) + 1]))
    /\ UNCHANGED <<autoIndex, storeVars, lockVars, queueVars, wk, reply, started,
                   finished, logged, crashed>>

ConsistNext == CallConsistID

SpecConsist == ConsistInit /\ [][ConsistNext]_vars

\* ---------------------------------------------------- application context
(***************************************************************************)
(* ApplicationContext.Start (coop): the modules of app.Modules are started *)
(* in order; each Start is a call into a Module implementation and may     *)
(* return an error.  The calls made are recorded in caller.results.        *)
(***************************************************************************)

\* The most modules an ApplicationContext holds.
MaxModules == 6

\* An ApplicationContext with its modules added, configured or not.
AppInit ==
    /\ autoIndex = TRUE
    /\ indexes = EmptyMap
    /\ indexDb = EmptyMap
    /\ idxLock = EmptyMap
    /\ dbEntries = EmptyMap
    /\ dbLock = EmptyMap
    /\ reqs = <<>>
    /\ reply = <<>>
    /\ requestChannel = <<>>
    /\ workers = [w \in Workers |-> <<>>]
    /\ main = [pc |-> "recv", req |-> Nil, target |-> 0]
    /\ wk = [w \in Workers |-> IdleWorker]
    /\ dispatched = <<>>
    /\ routed = <<>>
    /\ started = {}
    /\ finished = {}
    /\ logged = {}
    /\ crashed = "no"
    /\ \E n \in 0 .. MaxModules, valid \in BOOLEAN :
        caller = [pc |-> "start", results |-> <<>>, Modules |-> n,
                  ConfigurationValid |-> valid, i |-> 0, j |-> 0]

\* What ApplicationContext.Start leaves alone.
AppFrame ==
    UNCHANGED <<autoIndex, storeVars, lockVars, queueVars, wk, reply, started,
                finished, logged, crashed>>

\* if !app.ConfigurationValid { return 1 }; otherwise the loop begins
AppCall ==
    /\ caller.pc = "start"
    /\ caller' = IF caller.ConfigurationValid
                 THEN [caller EXCEPT !.pc = "loop", !.i = 0]
                 ELSE [caller EXCEPT !.pc = "returned",
                                     !.results = Append(@, <<"return", 1>>)]
    /\ AppFrame

\* err := coordinator.Start(); if err != nil, the rollback loop begins with
\* j := i - 1
AppStartModule ==
    /\ caller.pc = "loop"
    /\ caller.i < caller.Modules
    /\ \E err \in BOOLEAN :
        caller' = IF err
                  THEN [caller EXCEPT !.pc = "rollback", !.j = caller.i - 1,
                                      !.results = Append(@, <<"Start", caller.i, err>>)]
                  ELSE [caller EXCEPT !.i = @ + 1,
                                      !.results = Append(@, <<"Start", caller.i, err>>)]
    /\ AppFrame

\* for j := i - 1; j >= 0; j-- { coordinator.Stop() }: the loop variable of
\* the outer loop, the module whose Start failed, is the one stopped
AppStopModule ==
    /\ caller.pc = "rollback"
    /\ caller.j >= 0
    /\ caller' = [caller EXCEPT !.j = @ - 1,
                                !.results = Append(@, <<"Stop", caller.i>>)]
    /\ AppFrame

\* return 1
AppReturnFailure ==
    /\ caller.pc = "rollback"
    /\ caller.j < 0
    /\ caller' = [caller EXCEPT !.pc = "returned",
                                !.results = Append(@, <<"return", 1>>)]
    /\ AppFrame

\* <-exitChannel; return 0
AppWaitExit ==
    /\ caller.pc = "loop"
    /\ caller.i = caller.Modules
    /\ caller' = [caller EXCEPT !.pc = "returned",
                                !.results = Append(@, <<"return", 0>>)]
    /\ AppFrame

AppNext ==
    AppCall \/ AppStartModule \/ AppStopModule \/ AppReturnFailure \/ AppWaitExit

SpecApp == AppInit /\ [][AppNext]_vars

\* ------------------------------------------------------ SendStorageRequest
(***************************************************************************)
(* Mod.SendStorageRequest (modules): a client sends one request at a time  *)
(* to the storage channel, with a timeout, and for a request with a Reply  *)
(* channel waits for the reply.  The request of the call in progress is    *)
(* the last of reqs; what the calls returned is in caller.results, as      *)
(* <<request, Response>>.                                                  *)
(***************************************************************************)

\* The dynamic type of a value written to the Reply of request r is
\* *storage.Data: fetchEntry writes the entry, fetchEntryList a []string.
IsData(r) == reqs[r].RequestType = StorageFetchEntry

\* SendStorageRequest(sr): var response storage.Response; the select of
\* TimeoutSendStorageRequest begins
ModCall ==
    /\ crashed = "no"
    /\ caller.pc = "start"
    /\ Len(reqs) < MaxRequests
    /\ \E q \in Menu :
        /\ reqs' = Append(reqs, q)
        /\ reply' = Append(reply, NewReply(q))
    /\ caller' = [caller EXCEPT !.pc = "select"]
    /\ UNCHANGED <<autoIndex, storeVars, lockVars, requestChannel, workers, main,
                   dispatched, routed, wk, started, finished, logged, crashed>>

\* case storageChannel <- request: ok is true; with a Reply the caller goes on
\* to `r := <-sr.Reply`, without one the Response is returned
ModAccepted ==
    /\ crashed = "no"
    /\ caller.pc = "select"
    /\ Len(requestChannel) < QueueDepth
    /\ requestChannel' = Append(requestChannel, Len(reqs))
    /\ IF reqs[Len(reqs)].Reply
       THEN caller' = [caller EXCEPT !.pc = "wait"]
       ELSE Returns(Len(reqs), [Failure |-> FALSE, HasObject |-> FALSE,
                                Object |-> NilObject])
    /\ UNCHANGED <<autoIndex, storeVars, lockVars, reqs, workers, main, dispatched,
                   routed, wk, reply, started, finished, logged, crashed>>

\* case <-timeout: ok is false; response.Failure = true
ModExpired ==
    /\ crashed = "no"
    /\ caller.pc = "select"
    /\ Returns(Len(reqs), [Failure |-> TRUE, HasObject |-> FALSE, Object |-> NilObject])
    /\ UNCHANGED <<autoIndex, storeVars, lockVars, queueVars, wk, reply, started,
                   finished, logged, crashed>>

\* r := <-sr.Reply: the value written, or nil from the closed channel;
\* if r != nil { response.Object = r.(*storage.Data).Object }: the type
\* assertion panics on a value of another type
ModReceive ==
    /\ crashed = "no"
    /\ caller.pc = "wait"
    /\ reply[Len(reqs)].state = "closed"
    /\ IF reply[Len(reqs)].values = <<>>
       THEN /\ Returns(Len(reqs), [Failure |-> FALSE, HasObject |-> FALSE,
                                   Object |-> NilObject])
            /\ crashed' = crashed
       ELSE IF IsData(Len(reqs))
       THEN /\ Returns(Len(reqs), [Failure |-> FALSE, HasObject |-> TRUE,
                                   Object |-> reply[Len(reqs)].values[1].Object])
            /\ crashed' = crashed
       ELSE /\ caller' = [caller EXCEPT !.pc = "panic"]
            /\ crashed' = "panic"
    /\ UNCHANGED <<autoIndex, storeVars, lockVars, queueVars, wk, reply, started,
                   finished, logged>>

ModNext ==
    \/ ModCall \/ ModAccepted \/ ModExpired \/ ModReceive
    \/ MainLoop
    \/ \E w \in Workers : WorkerCall(w) \/ WorkerSkip(w) \/ Handler(w)
    \/ ConcurrentMapAccess

SpecMod == Init /\ [][ModNext]_vars

\* ------------------------------------------------------------- properties

\* The ids of the requests submitted so far.
Ids == 1 .. Len(reqs)

IsKeyScoped(r) == reqs[r].RequestType \in KeyScoped

Routable(r) == reqs[r].RequestType \in NamespaceWide \cup KeyScoped

SamePair(r1, r2) == reqs[r1].Index = reqs[r2].Index /\ reqs[r1].DB = reqs[r2].DB

SameKey(r1, r2) == SamePair(r1, r2) /\ reqs[r1].Entry = reqs[r2].Entry

\* mainLoop received r1 before r2.
DispatchedBefore(r1, r2) ==
    \E i, j \in DOMAIN dispatched : i < j /\ dispatched[i] = r1 /\ dispatched[j] = r2

IsDispatched(r) == \E i \in DOMAIN dispatched : dispatched[i] = r

\* The sends of r to a worker that mainLoop completed.
RoutedAt(r) == {i \in DOMAIN routed : routed[i][1] = r}

\* The places of r in the workers' channels.
QueuedAt(r) ==
    {p \in Workers \X (1 .. QueueDepth) :
        p[2] \in DOMAIN workers[p[1]] /\ workers[p[1]][p[2]] = r}

OneWorkerPerPair ==
    /\ \A r \in Ids :
        /\ Cardinality(RoutedAt(r)) <= 1
        /\ Cardinality(QueuedAt(r)) <= 1
        /\ \A p \in QueuedAt(r) : \E i \in RoutedAt(r) : routed[i][2] = p[1]
        /\ (IsDispatched(r) /\ Routable(r) /\ main.req # r)
              => Cardinality(RoutedAt(r)) = 1
        /\ (~IsDispatched(r) \/ ~Routable(r)) => RoutedAt(r) = {}
    /\ \A i, j \in DOMAIN routed :
        (/\ IsKeyScoped(routed[i][1]) /\ IsKeyScoped(routed[j][1])
         /\ SamePair(routed[i][1], routed[j][1]))
        => routed[i][2] = routed[j][2]

\* Two key-scoped requests on one pair with different entry keys were sent to
\* a worker, and a request of another pair or of no pair between them.
OneWorkerPerPairWitness ==
    \E i, j, m \in DOMAIN routed :
        /\ i < j /\ j < m
        /\ IsKeyScoped(routed[i][1]) /\ IsKeyScoped(routed[m][1])
        /\ SamePair(routed[i][1], routed[m][1])
        /\ reqs[routed[i][1]].Entry # reqs[routed[m][1]].Entry
        /\ ~SamePair(routed[i][1], routed[j][1])
        /\ routed[i][2] = routed[m][2]

FetchTypes == {StorageFetchIndexes, StorageFetchEntries, StorageFetchEntry}

\* C3: every Fetch request the dispatcher takes has its reply channel closed
\* in the end: once the engine is done with the request, the channel is closed.
FetchReplyClosed ==
    \A r \in finished :
        reqs[r].RequestType \in FetchTypes => reply[r].state = "closed"

\* C4: a reply channel is closed at most once, at most one value is written
\* to it, and none after it is closed.
ReplyDiscipline ==
    /\ [](\A r \in DOMAIN reply :
            reply[r].closes <= 1 /\ Len(reply[r].values) <= 1)
    /\ [][\A r \in DOMAIN reply :
            reply[r].state = "closed" => reply'[r].values = reply[r].values]_vars

\* A reply channel delivered its value and was closed, and another one was
\* closed with no value.
ReplyDisciplineWitness ==
    \E r1, r2 \in DOMAIN reply :
        /\ reply[r1].closes = 1 /\ Len(reply[r1].values) = 1
        /\ reply[r2].closes = 1 /\ reply[r2].values = <<>>

\* C5: when a worker takes a request whose type has no entry in its dispatch
\* table and the request carries a reply channel, the channel is closed with
\* no value written.
UnhandledTypeReplyClosed ==
    \A r \in finished :
        (/\ RoutedAt(r) # {}
         /\ reqs[r].RequestType \notin DOMAIN requestTypeMap
         /\ reqs[r].Reply)
        => (reply[r].state = "closed" /\ reply[r].values = <<>>)

\* C6: a request whose type the dispatcher does not know never reaches a
\* worker; in the step that receives it the dispatcher closes its reply
\* channel, when it has one, writes no value, sends nothing to a worker and is
\* back at its receive, ready for the next request.
UnknownTypeRejected ==
    /\ [](\A r \in Ids :
            ~Routable(r) =>
                /\ RoutedAt(r) = {} /\ QueuedAt(r) = {} /\ r \notin started
                /\ main.req # r)
    /\ [][\A r \in Ids :
            (/\ dispatched' = Append(dispatched, r)
             /\ ~Routable(r))
            => /\ reqs[r].Reply =>
                    reply'[r] = [state |-> "closed", values |-> <<>>, closes |-> 1]
               /\ ~reqs[r].Reply => reply'[r] = reply[r]
               /\ workers' = workers /\ routed' = routed /\ wk' = wk
               /\ main'.pc = "recv" /\ crashed' = "no"]_vars

\* The dispatcher closed the reply of a request of unknown type, and a request
\* it received after that one was handled to the end by a worker.
UnknownTypeRejectedWitness ==
    \E r1, r2 \in Ids :
        /\ ~Routable(r1) /\ reqs[r1].Reply
        /\ reply[r1].state = "closed"
        /\ DispatchedBefore(r1, r2)
        /\ r2 \in started /\ r2 \in finished

\* Request m is a set, delete or clear of the key that request r names.
ChangesKey(m, r) ==
    /\ reqs[m].RequestType \in {StorageSetData, StorageSetDeleteEntry, StorageClearData}
    /\ SameKey(m, r)

\* C7: when a SetEntry of payload P is accepted before a FetchEntry of the
\* same index, db and key, and no other request on that key between them, the
\* reply of the FetchEntry, once closed, has delivered P.
SetThenFetch ==
    \A s, f \in Ids :
        (/\ s < f
         /\ reqs[s].RequestType = StorageSetData
         /\ reqs[f].RequestType = StorageFetchEntry
         /\ SameKey(s, f)
         /\ \A m \in Ids : (s < m /\ m < f) => ~ChangesKey(m, f)
         /\ reply[f].state = "closed")
        => reply[f].values = <<Data(reqs[s].Object)>>

\* Worker w is in a handler and takes a step of it.
Steps(w) == crashed = "no" /\ wk[w].pc # "idle" /\ wk'[w] # wk[w]

\* A reply channel closed once with nothing written to it.
ClosedEmpty == [state |-> "closed", values |-> <<>>, closes |-> 1]

\* Some database of the store holds an entry.
StoreHoldsEntry == \E d \in DOMAIN dbEntries : dbEntries[d] # EmptyMap

\* Worker w is about to look up a database that its index, which exists, lacks.
AtUnknownDb(w, pcs) ==
    /\ wk[w].pc \in pcs
    /\ Req(w).Index \in DOMAIN indexes
    /\ Req(w).DB \notin DOMAIN indexDb[indexes[Req(w).Index]]

\* Worker w is about to read, in the database it found, a key that is not there.
AtUnknownEntry(w) ==
    /\ wk[w].pc = "fetchEntryRead"
    /\ Req(w).Entry \notin DOMAIN dbEntries[wk[w].db]

\* C8: a FetchEntry or FetchEntries that finds its index but not its database,
\* and a FetchEntry that finds its database but not its key, closes its reply
\* channel with no value written, ends, and leaves the store as it was.
AbsentFetchClosedEmpty ==
    [][\A w \in Workers :
        (/\ Steps(w)
         /\ \/ AtUnknownDb(w, {"teamFetchEntryList", "teamFetchEntry"})
            \/ AtUnknownEntry(w))
        => /\ reply'[wk[w].req] = ClosedEmpty
           /\ wk[w].req \in finished'
           /\ crashed' = "no"
           /\ UNCHANGED storeVars]_vars

\* With an entry in the store, one fetch ended on a database its index lacks
\* and another on a key its database lacks, both replies closed and empty.
AbsentFetchClosedEmptyWitness ==
    /\ StoreHoldsEntry
    /\ crashed = "no"
    /\ \E r1, r2 \in finished :
        /\ reqs[r1].RequestType \in {TypeFetchEntries, TypeFetchEntry}
        /\ <<r1, "Error Retrieving Database">> \in logged
        /\ reply[r1] = ClosedEmpty
        /\ reqs[r2].RequestType = TypeFetchEntry
        /\ <<r2, "Error Retrieving Entry">> \in logged
        /\ reply[r2] = ClosedEmpty

\* C9: a Fetch or Delete naming an index that does not exist ends that request
\* alone: the worker does not crash and goes on with the requests behind it,
\* the reply channel, when there is one, is closed with no value written.
UnknownIndexEndsRequestOnly ==
    [][\A w \in Workers :
        (/\ Steps(w)
         /\ wk[w].pc \in {"deleteEntry", "fetchEntryList", "fetchEntry"}
         /\ Req(w).Index \notin DOMAIN indexes)
        => /\ crashed' = "no"
           /\ wk[w].req \in finished'
           /\ wk'[w] = IdleWorker
           /\ Req(w).Reply => reply'[wk[w].req] = ClosedEmpty]_vars

\* C10: with auto-index off, a SetEntry naming an index the store does not
\* have is dropped: the handler ends at once, the index still does not exist,
\* no database and no entry is made, and the rest of the store is as it was.
\* No index of the store was ever made by a SetEntry.
DroppedWithoutAutoIndex ==
    /\ [](~autoIndex =>
            \A n \in DOMAIN indexes :
                indexes[n] > 0 => reqs[indexes[n]].RequestType = StorageSetIndex)
    /\ [][\A w \in Workers :
            (/\ Steps(w)
             /\ wk[w].pc = "addData"
             /\ ~autoIndex
             /\ Req(w).Index \notin DOMAIN indexes)
            => /\ UNCHANGED storeVars
               /\ Req(w).Index \notin DOMAIN indexes'
               /\ wk[w].req \in finished'
               /\ wk'[w] = IdleWorker
               /\ crashed' = "no"]_vars

\* Auto-index is off, the store holds an entry, and a SetEntry naming an index
\* that does not exist was handled and dropped.
DroppedWithoutAutoIndexWitness ==
    /\ ~autoIndex
    /\ StoreHoldsEntry
    /\ crashed = "no"
    /\ \E r \in finished :
        /\ reqs[r].RequestType = StorageSetData
        /\ <<r, "unknown index">> \in logged
        /\ reqs[r].Index \notin DOMAIN indexes

\* What a store holds at (index i, database d, key e): the entry, or nothing.
EntriesAt(ix, idb, ent, i, d, e) ==
    IF /\ i \in DOMAIN ix
       /\ d \in DOMAIN idb[ix[i]]
       /\ e \in DOMAIN ent[idb[ix[i]][d]]
    THEN {ent[idb[ix[i]][d]][e]}
    ELSE {}

\* C11: with auto-index on, when the handling of a SetEntry that found its
\* index missing ends, the index exists, it contains the database, and the
\* database maps the key to the payload.
AutoIndexedEntryStored ==
    [][\A w \in Workers :
        (/\ Steps(w)
         /\ wk[w].pc = "addDataPut"
         /\ autoIndex
         /\ <<wk[w].req, "Auto-Adding Index">> \in logged)
        => EntriesAt(indexes', indexDb', dbEntries',
                     Req(w).Index, Req(w).DB, Req(w).Entry)
              = {Data(Req(w).Object)}]_vars

\* C12: the handling of a SetIndex for a name that already exists changes
\* nothing: the index, its databases and their entries stay as they were.
SetIndexExistingNoOp ==
    [][\A w \in Workers :
        (/\ Steps(w)
         /\ wk[w].pc \in {"teamAddIndex", "teamNewIndex"}
         /\ Req(w).Index \in DOMAIN indexes)
        => UNCHANGED storeVars]_vars

\* C13: a step of a SetEntry or DeleteEntry changes no entry of the store but
\* the one at its own (index, database, key), and the step of a SetEntry that
\* stores leaves the payload there.
OwnEntryOnly ==
    [][\A w \in Workers :
        (/\ Steps(w)
         /\ Req(w).RequestType \in {TypeSetEntry, TypeDeleteEntry})
        => /\ \A i \in IndexNames, d \in DbNames, e \in EntryNames :
                <<i, d, e>> # <<Req(w).Index, Req(w).DB, Req(w).Entry>>
                => EntriesAt(indexes', indexDb', dbEntries', i, d, e)
                      = EntriesAt(indexes, indexDb, dbEntries, i, d, e)
           /\ wk[w].pc = "addDataPut"
                => dbEntries'[wk[w].db][Req(w).Entry] = Data(Req(w).Object)]_vars

\* The step is a return of the exported function op to the caller.
CallReturned(op) ==
    /\ Len(caller'.results) = Len(caller.results) + 1
    /\ caller'.results[Len(caller'.results)][1] = op

\* What the call that returns in this step returns.
ReturnedValue == caller'.results[Len(caller'.results)][2]

\* The caller has been returned v by a call of op.
Got(op, v) == \E i \in DOMAIN caller.results : caller.results[i] = <<op, v>>

\* The step is a call of CreateRequest(sr): it returns or it panics.
CreateRequestStep ==
    /\ caller.pc = "start"
    /\ caller'.pc = "panic" \/ CallReturned("CreateRequest")

\* C14: an Index.AddDB keeps every database the index already has, under the
\* name it had, with all its entries; under a name the index has, it is a
\* no-op.
AddDBExistingNoOp ==
    [][CallReturned("AddDB") =>
        \A d \in DOMAIN indexDb[indexes[a]] :
            /\ indexDb'[indexes[a]][d] = indexDb[indexes[a]][d]
            /\ \A e \in EntryNames :
                EntriesAt(indexes', indexDb', dbEntries', a, d, e)
                    = EntriesAt(indexes, indexDb, dbEntries, a, d, e)]_vars

\* The table of valid requests: fetch types need a reply path, FetchIndexes no
\* addressing field, FetchEntries index and database and no entry, FetchEntry
\* all three; set and delete types need no reply path, SetIndex the index
\* only, SetEntry and DeleteEntry all three.
TableAllows(sr) ==
    CASE sr.RequestType = TypeFetchIndexes ->
            sr.Reply /\ sr.Index = Empty /\ sr.DB = Empty /\ sr.Entry = Empty
      [] sr.RequestType = TypeFetchEntries ->
            sr.Reply /\ sr.Index # Empty /\ sr.DB # Empty /\ sr.Entry = Empty
      [] sr.RequestType = TypeFetchEntry ->
            sr.Reply /\ sr.Index # Empty /\ sr.DB # Empty /\ sr.Entry # Empty
      [] sr.RequestType = TypeSetIndex ->
            ~sr.Reply /\ sr.Index # Empty /\ sr.DB = Empty /\ sr.Entry = Empty
      [] sr.RequestType \in {TypeSetEntry, TypeDeleteEntry} ->
            ~sr.Reply /\ sr.Index # Empty /\ sr.DB # Empty /\ sr.Entry # Empty
      [] OTHER -> FALSE

\* C15: for the six request types of the table, with or without a reply path
\* and with each of index, database and entry empty or not, IsValid and
\* Validate return true exactly when the table allows the request.
ValidationTable ==
    [][\A op \in {"IsValid", "Validate"} :
        (/\ CallReturned(op)
         /\ reqs[1].RequestType \in TypeSetIndex .. TypeFetchEntry)
        => ReturnedValue = TableAllows(reqs[1])]_vars

\* A FetchEntries builder with a reply path, index and database and no entry
\* was found valid by IsValid and by Validate.
ValidationTableWitness ==
    /\ reqs[1].RequestType = TypeFetchEntries
    /\ Got("IsValid", TRUE)
    /\ Got("Validate", TRUE)

\* C16: a validate call that returns false leaves the indexes, databases and
\* entries of the store as they were and sends nothing to the dispatcher.
ValidateChangesNothing ==
    [][\A op \in {"IsValid", "Validate"} :
        (CallReturned(op) /\ ~ReturnedValue)
        => UNCHANGED <<storeVars, lockVars, requestChannel, dispatched>>]_vars

\* A SetEntry builder without a database was found malformed by IsValid and
\* by Validate, in a store that holds an entry.
ValidateChangesNothingWitness ==
    /\ reqs[1].RequestType = TypeSetEntry
    /\ reqs[1].DB = Empty
    /\ Got("IsValid", FALSE)
    /\ Got("Validate", FALSE)
    /\ StoreHoldsEntry

\* C17: a SetEntry without a payload object is never found valid.
PayloadRequired ==
    (reqs[1].RequestType = TypeSetEntry /\ reqs[1].Object = NilObject)
    => ~(Got("IsValid", TRUE) \/ Got("Validate", TRUE) \/ Got("CreateRequest", TRUE))

\* C18: a CreateRequest that follows a CreateRequest on the same builder
\* returns, and returns what the first call returned.
CreateRequestIdempotent ==
    [][(/\ CreateRequestStep
        /\ caller.results # <<>>
        /\ caller.results[Len(caller.results)][1] = "CreateRequest")
       => caller'.results
            = Append(caller.results, caller.results[Len(caller.results)])]_vars

\* C19: a CreateRequest on a builder that fails validation returns (nil,
\* false) to the caller.
InvalidBuilderReturnsFalse ==
    [][(CreateRequestStep /\ ~IsValid(reqs'[1]))
       => /\ caller'.pc = "start"
          /\ caller'.results
                = Append(caller.results, <<"CreateRequest", FALSE>>)]_vars

\* The calls of TimeoutSendStorageRequest that returned true.
AcceptedSends ==
    Cardinality({i \in DOMAIN caller.results :
                    caller.results[i] = <<"TimeoutSend", TRUE>>})

\* C20: a call of TimeoutSendStorageRequest returns.  It returns true only in
\* the step that places the request on the inbound channel, once; it returns
\* false without placing it, so that the requests ever placed are as many as
\* the calls that returned true.
TimeoutSendReturns ==
    /\ [](Len(requestChannel) + Len(dispatched) = AcceptedSends)
    /\ [][CallReturned("TimeoutSend") =>
            IF ReturnedValue
            THEN /\ Len(requestChannel) < QueueDepth
                 /\ requestChannel' = Append(requestChannel, 1)
                 /\ dispatched' = dispatched
            ELSE UNCHANGED <<requestChannel, dispatched>>]_vars
    /\ (caller.pc = "select" ~> caller.pc = "start")

\* A call returned false while the inbound channel was full of a request sent
\* before and nothing had drained it.
TimeoutSendReturnsWitness ==
    /\ caller.results = <<<<"TimeoutSend", TRUE>>, <<"TimeoutSend", FALSE>>>>
    /\ Len(requestChannel) = QueueDepth
    /\ dispatched = <<>>
    /\ caller.pc = "start"

\* C21: in Stop no worker channel is closed before mainLoop has exited, and
\* mainLoop never sends to a closed worker channel; mainLoop exits only after
\* the inbound channel is closed, a worker only after its channel is closed,
\* and Stop returns only after every worker has exited.
StopOrder ==
    /\ [](/\ \A w \in Workers : WorkerClosed(w) => main.pc = "exit"
          /\ main.pc = "exit" => InboundClosed /\ requestChannel = <<>>
          /\ \A w \in Workers : wk[w].pc = "exit" => WorkerClosed(w)
          /\ caller.pc = "returned" =>
                \A w \in Workers : wk[w].pc = "exit" /\ WorkerClosed(w))
    /\ [][workers' # workers /\ main' # main => ~WorkerClosed(main.target)]_vars

\* Stop has returned after three requests were submitted, one of which was
\* still in the inbound channel when mainLoop had nothing else left to do.
StopOrderWitness ==
    /\ caller.pc = "returned"
    /\ Len(reqs) = MaxRequests
    /\ Len(dispatched) = MaxRequests
    /\ crashed = "no"

\* C22: when Stop has returned, the inbound channel and the worker channels
\* are empty and every request that was accepted has been handled to the end
\* by a worker's handler, or closed by mainLoop as unknown.
StopDrains ==
    caller.pc = "returned" =>
        /\ requestChannel = <<>>
        /\ \A w \in Workers : workers[w] = <<>>
        /\ \A r \in 1 .. Len(reqs) :
            /\ r \in finished
            /\ r \in started \/ <<r, "unknown storage request type">> \in logged

\* C23: once Stop has closed the inbound channel it returns, and when it has
\* returned mainLoop and all the workers have exited.
StopReturns ==
    /\ caller.pc = "mainWait" ~> caller.pc = "returned"
    /\ [](caller.pc = "returned" =>
            main.pc = "exit" /\ \A w \in Workers : wk[w].pc = "exit")

\* The (index, database, key) triples at which the store holds an entry.
StoredKeys ==
    {t \in IndexNames \X DbNames \X EntryNames :
        EntriesAt(indexes, indexDb, dbEntries, t[1], t[2], t[3]) # {}}

\* C24: with auto-index on and the store empty at the start, when N SetEntry
\* requests with pairwise distinct (index, database, key), and nothing else,
\* have all been handled, the store holds exactly N entries.
NoSetEntryLost ==
    (/\ autoIndex
     /\ crashed = "no"
     /\ \A r \in Ids : reqs[r].RequestType = TypeSetEntry /\ r \in finished
     /\ \A r, s \in Ids : r # s => ~SameKey(r, s))
    => Cardinality(StoredKeys) = Len(reqs)

\* C25: an Index installed under a name is never replaced by another Index
\* object, and a handler that has an Index in hand has the installed one.
IndexInstalledOnce ==
    /\ [][\A n \in DOMAIN indexes : indexes'[n] = indexes[n]]_vars
    /\ [](\A w \in Workers :
            (wk[w].idx # Nil /\ Req(w).Index \in DOMAIN indexes)
            => wk[w].idx = indexes[Req(w).Index])

\* The locks il (of the indexes) and dl (of the databases) that worker w holds.
LocksHeld(il, dl, w) ==
    {i \in DOMAIN il : \E m \in {"R", "W"} : <<w, m>> \in il[i]}
        \cup {d \in DOMAIN dl : \E m \in {"R", "W"} : <<w, m>> \in dl[d]}

AbsentTargetNoEffect ==
    [][\A w \in Workers :
        (/\ Steps(w)
         /\ \/ /\ wk[w].pc = "deleteDo"
               /\ Req(w).Entry \notin DOMAIN dbEntries[wk[w].db]
            \/ /\ wk[w].pc = "clearGetDB"
               /\ Req(w).DB \notin DOMAIN indexDb[wk[w].idx]
            \/ AtUnknownDb(w, {"deleteEntry"}))
        => /\ UNCHANGED storeVars
           /\ LocksHeld(idxLock', dbLock', w) = {}
           /\ wk'[w] = IdleWorker
           /\ wk[w].req \in finished'
           /\ crashed' = "no"]_vars

\* A ClearData found no database in the index, and later a DeleteEntry found
\* no such key in the database a SetData had made; the store holds the entry
\* of the SetData and no lock is held.
AbsentTargetNoEffectWitness ==
    /\ crashed = "no"
    /\ StoreHoldsEntry
    /\ \A w \in Workers : LocksHeld(idxLock, dbLock, w) = {}
    /\ \E r1, r2 \in finished :
        /\ reqs[r1].RequestType = StorageClearData
        /\ <<r1, "Error Retrieving Database">> \in logged
        /\ reqs[r2].RequestType = StorageSetDeleteEntry
        /\ <<r2, "Error Retrieving Entry">> \in logged

\* C28: the step at which a ClearData finds its key absent from the database
\* logs the error and ends the handling of the request: the worker is back at
\* its loop, the database lock is released, the process runs.
ClearAbsentEntryEndsRequestOnly ==
    [][\A w \in Workers :
        (/\ Steps(w)
         /\ wk[w].pc = "clearEntry"
         /\ Req(w).Entry \notin DOMAIN dbEntries[wk[w].db])
        => /\ <<wk[w].req, "Error Retrieving Data">> \in logged'
           /\ LocksHeld(idxLock', dbLock', w) = {}
           /\ wk'[w] = IdleWorker
           /\ wk[w].req \in finished'
           /\ crashed' = "no"]_vars

\* C29: nothing orders a namespace-wide request after a key-scoped request
\* on the same (index, database): whenever mainLoop is about to receive a
\* namespace-wide request, it may send it to any of the workers, whichever
\* worker the key-scoped requests of the pair went to.
NamespaceWideUnordered ==
    (/\ crashed = "no"
     /\ main.pc = "recv"
     /\ requestChannel # <<>>
     /\ reqs[Head(requestChannel)].RequestType \in NamespaceWide)
    => \A w \in Workers : ENABLED (MainRouteAny /\ main'.target = w)

\* mainLoop received a SetData and then a FetchEntries on the same (index,
\* database); the FetchEntries has been answered with a list of keys that
\* lacks the key of the SetData, whose handling has not started.
NamespaceWideUnorderedWitness ==
    /\ crashed = "no"
    /\ \E r1, r2 \in Ids :
        /\ reqs[r1].RequestType = StorageSetData
        /\ reqs[r2].RequestType = StorageFetchEntries
        /\ SamePair(r1, r2)
        /\ DispatchedBefore(r1, r2)
        /\ r1 \notin started
        /\ r2 \in finished
        /\ reply[r2].values # <<>>
        /\ reply[r2].values[1] # {}
        /\ reqs[r1].Entry \notin reply[r2].values[1]

\* The Index locks, and the Database locks, that worker w holds.
IndexLocksHeld(il, w) == {i \in DOMAIN il : \E m \in {"R", "W"} : <<w, m>> \in il[i]}

DbLocksHeld(dl, w) == {d \in DOMAIN dl : \E m \in {"R", "W"} : <<w, m>> \in dl[d]}

\* The steps that take the Datastore lock: Get, GetIndex, NewIndex and the
\* listing of the indexes.
DatastoreSteps ==
    {"teamAddIndex", "teamNewIndex", "teamAddEntry", "teamAutoIndex",
     "teamDeleteEntry", "teamFetchEntryList", "teamFetchEntry", "fetchAllEntries",
     "fetchIndexList", "fetchDBList"}

\* Worker w waits for a store lock that worker v holds.
WaitsFor(w, v) ==
    /\ w # v
    /\ \/ /\ wk[w].pc \in {"addDataLock", "clearLock", "fetchDBLock"}
          /\ wk[w].idx \in IndexLocksHeld(idxLock, v)
       \/ /\ wk[w].pc \in {"addDataDbLock", "clearDbLock", "deleteLock",
                          "fetchListLock", "fetchEntryLock", "fetchAllLock"}
          /\ wk[w].db \in DbLocksHeld(dbLock, v)

\* C30: no worker takes the Datastore lock while it holds an Index lock or a
\* Database lock, none takes an Index lock while it holds a Database lock,
\* and no set of workers wait each for a store lock another of them holds.
LockOrder ==
    /\ [](/\ \A w \in Workers :
                wk[w].pc \in DatastoreSteps => LocksHeld(idxLock, dbLock, w) = {}
          /\ \A ws \in SUBSET Workers \ {{}} :
                ~ \A w \in ws : \E v \in ws : WaitsFor(w, v))
    /\ [][\A w \in Workers :
            IndexLocksHeld(idxLock', w) \ IndexLocksHeld(idxLock, w) # {}
            => DbLocksHeld(dbLock, w) = {}]_vars

\* A worker waits for the lock of a Database that another worker, which is
\* about to store an entry in it, holds.
LockOrderWitness ==
    /\ crashed = "no"
    /\ \E w, v \in Workers :
        /\ WaitsFor(w, v)
        /\ wk[v].pc = "addDataPut"
        /\ wk[w].pc \in {"fetchListLock", "fetchEntryLock", "fetchAllLock", "deleteLock"}

\* The steps at which a fetch handler writes its result to the reply path.
SendSteps ==
    {"fetchListSend", "fetchEntrySend", "fetchAllSend", "fetchIndexSend", "fetchDBSend"}

\* C31: a worker that is about to write a result to a reply path holds no
\* Index lock and no Database lock, and every step of a worker that writes to
\* or closes a reply path leaves the worker without a store lock.
NoLockAcrossSend ==
    /\ [](\A w \in Workers :
            wk[w].pc \in SendSteps => LocksHeld(idxLock, dbLock, w) = {})
    /\ [][\A w \in Workers :
            (Steps(w) /\ reply' # reply) => LocksHeld(idxLock', dbLock', w) = {}]_vars

\* A worker is about to send the entry it read from a database whose lock
\* another worker has taken since.
NoLockAcrossSendWitness ==
    /\ crashed = "no"
    /\ \E w, v \in Workers :
        /\ w # v
        /\ wk[w].pc \in SendSteps
        /\ wk[w].db \in DbLocksHeld(dbLock, v)
        /\ reply[wk[w].req].state = "open"

\* The steps a fetch handler takes between db.RLock() and db.RUnlock().
ReadSteps == {"fetchListRead", "fetchEntryRead", "fetchAllRead"}

\* The steps a handler takes between db.Lock() and db.Unlock().
WriteSteps == {"addDataPut", "deleteDo", "clearEntry"}

\* C32: a fetch handler that is about to take the lock of a Database for
\* reading can take it while another fetch handler holds it for reading, and
\* a handler that holds it for writing is its only holder.
SharedDatabaseReads ==
    /\ \A w, v \in Workers :
        (/\ crashed = "no"
         /\ w # v
         /\ wk[w].pc \in {"fetchListLock", "fetchEntryLock", "fetchAllLock"}
         /\ wk[v].pc \in ReadSteps
         /\ wk[v].db = wk[w].db
         /\ DbLocksHeld(dbLock, v) = {wk[v].db})
        => ENABLED (FetchListLock(w) \/ FetchEntryLock(w) \/ FetchAllLock(w))
    /\ \A w \in Workers :
        wk[w].pc \in WriteSteps
        => \A v \in Workers \ {w} : wk[w].db \notin DbLocksHeld(dbLock, v)

\* The steps that look a database name up in the mapping of an Index.
DbLookupSteps ==
    {"teamDeleteEntry", "teamFetchEntryList", "teamFetchEntry", "fetchAllEntries",
     "addDataGetDB"}

\* The Index object in whose mapping worker w looks a database name up.
LookupIndex(w) ==
    IF wk[w].pc = "addDataGetDB" THEN wk[w].idx ELSE indexes[Req(w).Index]

\* C33: every step of a worker that looks a database name up in the mapping
\* of an Index is taken while the worker holds the lock of that Index, and no
\* worker is about to look a name up in a mapping to which another worker is
\* about to add a database.
DbLookupUnderIndexLock ==
    /\ [][\A w \in Workers :
            (/\ Steps(w)
             /\ wk[w].pc \in DbLookupSteps
             /\ (wk[w].pc # "addDataGetDB" => Req(w).Index \in DOMAIN indexes))
            => LookupIndex(w) \in IndexLocksHeld(idxLock, w)]_vars
    /\ [](\A u, v \in Workers, i \in DOMAIN indexDb :
            ~(u # v /\ WritesDb(u, i) /\ ReadsDbUnlocked(v, i)))

\* C34: no step removes a name from the mapping of indexes or replaces the
\* Index object stored under a name: a step changes the mapping only by adding
\* a name that was not present.
IndexesOnlyGrow ==
    [][\A n \in DOMAIN indexes :
        n \in DOMAIN indexes' /\ indexes'[n] = indexes[n]]_vars

\* C35: the identifiers Request.ConsistID returned for two requests with
\* the same index name and the same database name are equal, whatever their
\* entry keys.
ConsistIDByPair ==
    (Len(caller.results) = 2 /\ SamePair(1, 2))
    => caller.results[1] = caller.results[2]

\* C36: once a SetIndex request has been handled, the store has an index of
\* the request's name.
SetIndexCreatesIndex ==
    \A r \in finished :
        reqs[r].RequestType = TypeSetIndex => reqs[r].Index \in DOMAIN indexes

\* C37: an entry the store holds at an (index, database, key) is there,
\* unchanged, after every step that is not a step of the handling of a
\* SetEntry or a DeleteEntry for the same (index, database, key).
StoredEntryStays ==
    [][\A t \in IndexNames \X DbNames \X EntryNames :
        EntriesAt(indexes, indexDb, dbEntries, t[1], t[2], t[3]) # {}
        => \/ EntriesAt(indexes', indexDb', dbEntries', t[1], t[2], t[3])
                = EntriesAt(indexes, indexDb, dbEntries, t[1], t[2], t[3])
           \/ \E w \in Workers :
                /\ Steps(w)
                /\ Req(w).RequestType \in {TypeSetEntry, TypeDeleteEntry}
                /\ <<Req(w).Index, Req(w).DB, Req(w).Entry>> = t]_vars

IsStopCall(c) == c[1] = "Stop"

StopCalls == SelectSeq(caller.results, IsStopCall)

\* C39: when ApplicationContext.Start has returned after the Start of module
\* i returned an error, it has called Stop on the modules i-1, ..., 0, in
\* this order, once each, and on no other, and it has returned 1.
StartFailureRollsBack ==
    (/\ caller.pc = "returned"
     /\ caller.results # <<>>
     /\ \E c \in 1 .. Len(caller.results) :
            caller.results[c] = <<"Start", caller.i, TRUE>>)
    => /\ Len(StopCalls) = caller.i
       /\ \A m \in 1 .. Len(StopCalls) : StopCalls[m] = <<"Stop", caller.i - m>>
       /\ caller.results[Len(caller.results)] = <<"return", 1>>

\* Request r was sent to the storage channel.
Submitted(r) ==
    IsDispatched(r) \/ \E p \in DOMAIN requestChannel : requestChannel[p] = r

\* C40: a call of SendStorageRequest does not end in a panic; the Response
\* of a call has Failure set exactly when the request was not sent, and is
\* then returned from the select; and the Response for a sent request with a
\* Reply is returned when the Reply is closed, with HasObject set exactly
\* when a value was written to it.
SendStorageResponse ==
    /\ [](/\ caller.pc # "panic"
          /\ \A c \in DOMAIN caller.results :
                /\ caller.results[c][2].Failure <=> ~Submitted(caller.results[c][1])
                /\ (reqs[caller.results[c][1]].Reply /\ ~caller.results[c][2].Failure)
                   => /\ reply[caller.results[c][1]].state = "closed"
                      /\ caller.results[c][2].HasObject
                            <=> reply[caller.results[c][1]].values # <<>>)
    /\ [][(/\ Len(caller'.results) > Len(caller.results)
           /\ caller'.results[Len(caller'.results)][2].Failure)
          => caller.pc = "select"]_vars

====
